---- MODULE Spec2Model ----
(***************************************************************************)
(* A model of nodefling: the retry driver retryWithBackoff with the        *)
(* classifier isRetryableError it consults, the exception model            *)
(* (BaseException, its variants, its methods), the error utilities and the *)
(* Express errorHandler.                                                   *)
(*                                                                         *)
(* Conventions.  An optional JavaScript value is a sequence of length at   *)
(* most one: << >> is undefined, <<v>> is the value v.  A string that the  *)
(* code searches with includes() is a sequence of words, and includes(c)   *)
(* for a one-word needle c is membership of c among the words.             *)
(***************************************************************************)
EXTENDS Integers, Sequences, FiniteSets, TLC

VARIABLES
    drv,     \* the calls of retryWithBackoff made so far, one record per call
    env,     \* process.env.NODE_ENV
    opts,    \* the options object the caller is building
    ctorV,   \* the variant and the positional arguments of each construction
    excs,    \* the exception records
    heap,    \* the details and context objects, by reference
    resp,    \* the payload the last toResponse() returned
    clock,   \* what new Date() returns
    ret      \* the last call of a utility or method: its arguments and outcome

retryVars == <<drv>>

excVars == <<env, opts, ctorV, excs, heap, resp, clock, ret>>

vars == <<drv, env, opts, ctorV, excs, heap, resp, clock, ret>>

(***************************************************************************)
(* Bounds of the model.                                                    *)
(***************************************************************************)
MaxRetries == 6

(* The most keys an options object carries.                                *)
MaxOptKeys == 1

Drivers == {"A", "B"}

(* (baseDelay, maxDelay) pairs a call may be given: the test's (10, 100),  *)
(* the defaults (1000, 10000), a base above the cap, and zero delays.      *)
DelayPairs == {<<10, 100>>, <<1000, 10000>>, <<7, 3>>, <<0, 0>>}

(***************************************************************************)
(* Values an operation can throw or return.                                *)
(***************************************************************************)
Undef == << >>

Some(v) == <<v>>

includes(s, c) == \E i \in DOMAIN s : s[i] = c

(* A thrown or returned value.  id tells values apart (reference identity  *)
(* for objects): the value produced by the n-th invocation has id n.       *)
Val(kind, id, retryable, code, message, stack) ==
    [kind |-> kind, id |-> id, retryable |-> retryable, code |-> code,
     message |-> message, stack |-> stack]

undefinedValue == Val("undefined", 0, FALSE, Undef, Undef, Undef)

successValue(n) == Val("value", n, FALSE, Undef, Undef, Undef)

(* The TypeError that member access on null or undefined raises.           *)
typeError == Val("Error", -1, FALSE, Undef,
                 Some(<<"Cannot", "read", "properties">>),
                 Some(<<"TypeError", "Cannot", "read", "properties">>))

(* The shapes an operation may fail with.                                  *)
ErrorShapes ==
    { (* modeled exceptions: only the retryable flag counts *)
      Val("BaseException", 0, TRUE, Some("SERVICE_UNAVAILABLE"),
          Some(<<"Service", "Unavailable">>), Some(<<"Service", "Unavailable">>)),
      Val("BaseException", 0, FALSE, Some("BAD_REQUEST"),
          Some(<<"Bad", "Request">>), Some(<<"Bad", "Request">>)),
      Val("BaseException", 0, FALSE, Some("ECONNRESET"),
          Some(<<"read", "ECONNRESET">>), Some(<<"read", "ECONNRESET">>)),
      (* foreign errors *)
      Val("Error", 0, FALSE, Some("ECONNRESET"),
          Some(<<"ECONNRESET">>), Some(<<"Error", "ECONNRESET">>)),
      Val("Error", 0, FALSE, Undef,
          Some(<<"connect", "ETIMEDOUT">>), Undef),
      Val("Error", 0, FALSE, Undef,
          Some(<<"boom">>), Some(<<"Error", "boom", "EPIPE">>)),
      Val("Error", 0, FALSE, Some("EOTHER"),
          Some(<<"boom">>), Some(<<"Error", "boom">>)),
      Val("Error", 0, FALSE, Undef, Undef, Undef),
      (* primitives *)
      Val("string", 0, FALSE, Undef, Undef, Undef),
      Val("null", 0, FALSE, Undef, Undef, Undef),
      Val("undefined", 0, FALSE, Undef, Undef, Undef) }

(***************************************************************************)
(* isBaseException, isRetryableError                                       *)
(***************************************************************************)
isBaseException(error) == error.kind = "BaseException"

retryableErrors ==
    <<"ECONNRESET", "ECONNREFUSED", "ETIMEDOUT", "ENOTFOUND", "ENETUNREACH",
      "ECONNRESET", "EPIPE", "EAI_AGAIN">>

(* error.code on null or undefined raises a TypeError.                     *)
isRetryableErrorThrows(error) ==
    /\ ~isBaseException(error)
    /\ error.kind \in {"null", "undefined"}

(* isRetryableError that does not look into error.stack.                   *)
isRetryableError_noStack(error) ==
    IF isBaseException(error)
    THEN error.retryable
    ELSE \E i \in DOMAIN retryableErrors :
           LET code == retryableErrors[i] IN
             \/ error.code = Some(code)
             \/ (error.message # Undef /\ includes(error.message[1], code))

isRetryableError(error) ==
    IF isBaseException(error)
    THEN error.retryable
    ELSE \E i \in DOMAIN retryableErrors :
           LET code == retryableErrors[i] IN
             \/ error.code = Some(code)
             \/ (error.message # Undef /\ includes(error.message[1], code))
             \/ (error.stack # Undef /\ includes(error.stack[1], code))

(***************************************************************************)
(* retryWithBackoff                                                        *)
(***************************************************************************)
RECURSIVE pow2(_)
pow2(n) == IF n <= 0 THEN 1 ELSE 2 * pow2(n - 1)

min(a, b) == IF a < b THEN a ELSE b

(* backoffDelay with the exponent counted from 1 (2^(attempt+1)).          *)
backoffDelay_shifted(baseDelay, attempt, maxDelay) ==
    min(baseDelay * pow2(attempt + 1), maxDelay)

backoffDelay(baseDelay, attempt, maxDelay) ==
    min(baseDelay * pow2(attempt), maxDelay)

(* The state of a call as its body starts: let lastError; attempt = 0.      *)
(* calls, delays, thrown, failures and allRetryable record the history.    *)
newDriver(mr, bd, md) ==
    [pc |-> "loop", maxRetries |-> mr, baseDelay |-> bd, maxDelay |-> md,
     attempt |-> 0, lastError |-> undefinedValue, calls |-> 0,
     delays |-> << >>, outcome |-> undefinedValue,
     thrown |-> undefinedValue, failures |-> 0, allRetryable |-> TRUE]

(* loopHead with < for <=: one attempt too few.                            *)
loopHead_strict(s) ==
    IF s.attempt < s.maxRetries
    THEN [s EXCEPT !.pc = "awaitFn", !.calls = @ + 1]
    ELSE [s EXCEPT !.pc = "rejected", !.outcome = s.lastError]

(* The head of the for loop: test attempt <= maxRetries, then either call  *)
(* fn() and await it, or leave the loop and throw lastError.               *)
loopHead(s) ==
    IF s.attempt <= s.maxRetries
    THEN [s EXCEPT !.pc = "awaitFn", !.calls = @ + 1]
    ELSE [s EXCEPT !.pc = "rejected", !.outcome = s.lastError]

(* catchBlock with && for ||: gives up only on a non-retryable error at    *)
(* the last attempt.                                                       *)
catchBlock_and(s, error) ==
    LET t == [s EXCEPT !.lastError = error] IN
    IF s.attempt = s.maxRetries /\ isRetryableErrorThrows(error)
    THEN [t EXCEPT !.pc = "rejected", !.outcome = typeError]
    ELSE IF s.attempt = s.maxRetries /\ ~isRetryableError(error)
    THEN [t EXCEPT !.pc = "rejected", !.outcome = error]
    ELSE [t EXCEPT !.pc = "sleeping",
                   !.delays = Append(@, backoffDelay(s.baseDelay, s.attempt, s.maxDelay))]

(* catchBlock that throws lastError before storing the new error in it.    *)
catchBlock_stale(s, error) ==
    LET t == [s EXCEPT !.lastError = error] IN
    IF s.attempt = s.maxRetries
    THEN [t EXCEPT !.pc = "rejected", !.outcome = s.lastError]
    ELSE IF isRetryableErrorThrows(error)
    THEN [t EXCEPT !.pc = "rejected", !.outcome = typeError]
    ELSE IF ~isRetryableError(error)
    THEN [t EXCEPT !.pc = "rejected", !.outcome = s.lastError]
    ELSE [t EXCEPT !.pc = "sleeping",
                   !.delays = Append(@, backoffDelay(s.baseDelay, s.attempt, s.maxDelay))]

(* catchBlock that gives up one attempt early: attempt + 1 >= maxRetries.  *)
catchBlock_early(s, error) ==
    LET t == [s EXCEPT !.lastError = error] IN
    IF s.attempt + 1 >= s.maxRetries
    THEN [t EXCEPT !.pc = "rejected", !.outcome = error]
    ELSE IF isRetryableErrorThrows(error)
    THEN [t EXCEPT !.pc = "rejected", !.outcome = typeError]
    ELSE IF ~isRetryableError(error)
    THEN [t EXCEPT !.pc = "rejected", !.outcome = error]
    ELSE [t EXCEPT !.pc = "sleeping",
                   !.delays = Append(@, backoffDelay(s.baseDelay, s.attempt, s.maxDelay))]

(* catchBlock that does not await the timer: the next attempt starts in    *)
(* the same step as the failure.                                           *)
catchBlock_eager(s, error) ==
    LET t == [s EXCEPT !.lastError = error] IN
    IF s.attempt = s.maxRetries
    THEN [t EXCEPT !.pc = "rejected", !.outcome = error]
    ELSE IF isRetryableErrorThrows(error)
    THEN [t EXCEPT !.pc = "rejected", !.outcome = typeError]
    ELSE IF ~isRetryableError(error)
    THEN [t EXCEPT !.pc = "rejected", !.outcome = error]
    ELSE loopHead([t EXCEPT !.attempt = @ + 1,
                            !.delays = Append(@, backoffDelay(s.baseDelay, s.attempt,
                                                              s.maxDelay))])

(* The catch block, run with the error the awaited fn() failed with.       *)
catchBlock(s, error) ==
    LET t == [s EXCEPT !.lastError = error] IN
    IF s.attempt = s.maxRetries
    THEN [t EXCEPT !.pc = "rejected", !.outcome = error]
    ELSE IF isRetryableErrorThrows(error)
    THEN [t EXCEPT !.pc = "rejected", !.outcome = typeError]
    ELSE IF ~isRetryableError(error)
    THEN [t EXCEPT !.pc = "rejected", !.outcome = error]
    ELSE [t EXCEPT !.pc = "sleeping",
                   !.delays = Append(@, backoffDelay(s.baseDelay, s.attempt, s.maxDelay))]

(* retryWithBackoff(fn, maxRetries, baseDelay, maxDelay) is called: the    *)
(* async function runs up to its first await.                              *)
Call(d, mr, bd, md) ==
    /\ d \notin DOMAIN drv
    /\ drv' = [x \in DOMAIN drv \cup {d} |->
                 IF x = d THEN loopHead(newDriver(mr, bd, md)) ELSE drv[x]]
    /\ UNCHANGED excVars

(* FnResolve of a process whose sleep is a busy wait: nothing else runs    *)
(* while some call is suspended.                                           *)
FnResolve_blocked(d) ==
    /\ d \in DOMAIN drv
    /\ drv[d].pc = "awaitFn"
    /\ \A o \in DOMAIN drv : drv[o].pc # "sleeping"
    /\ drv' = [drv EXCEPT ![d] =
                 [@ EXCEPT !.pc = "resolved",
                           !.outcome = successValue(drv[d].calls)]]
    /\ UNCHANGED excVars

(* The awaited fn() fulfils: return await fn().                            *)
FnResolve(d) ==
    /\ d \in DOMAIN drv
    /\ drv[d].pc = "awaitFn"
    /\ drv' = [drv EXCEPT ![d] =
                 [@ EXCEPT !.pc = "resolved",
                           !.outcome = successValue(drv[d].calls)]]
    /\ UNCHANGED excVars

(* The awaited fn() fails (a rejection or a synchronous throw) with a      *)
(* value of shape e; the catch block runs.                                 *)
FnReject(d, e) ==
    /\ d \in DOMAIN drv
    /\ drv[d].pc = "awaitFn"
    /\ LET error == [e EXCEPT !.id = drv[d].calls] IN
       drv' = [drv EXCEPT ![d] =
                 catchBlock([@ EXCEPT !.thrown = error,
                                      !.failures = @ + 1,
                                      !.allRetryable =
                                          /\ @
                                          /\ ~isRetryableErrorThrows(error)
                                          /\ isRetryableError(error)],
                            error)]
    /\ UNCHANGED excVars

(* A timer whose callback never resolves the awaited promise.             *)
TimerFire_lost(d) ==
    /\ d \in DOMAIN drv
    /\ drv[d].pc = "sleeping"
    /\ UNCHANGED vars

(* The timer of setTimeout(resolve, delay) fires: attempt++ and the loop   *)
(* head runs again.                                                        *)
TimerFire(d) ==
    /\ d \in DOMAIN drv
    /\ drv[d].pc = "sleeping"
    /\ drv' = [drv EXCEPT ![d] = loopHead([@ EXCEPT !.attempt = @ + 1])]
    /\ UNCHANGED excVars

(***************************************************************************)
(* The exception model: StatusCodes, BaseException and its variants        *)
(***************************************************************************)
ExcIds == {"e1", "e2"}

NodeEnvs == {Undef, Some("development"), Some("production")}

StatusCodes ==
    [OK |-> 200, BAD_REQUEST |-> 400, UNAUTHORIZED |-> 401, FORBIDDEN |-> 403,
     NOT_FOUND |-> 404, METHOD_NOT_ALLOWED |-> 405, CONFLICT |-> 409,
     UNPROCESSABLE_ENTITY |-> 422, TOO_MANY_REQUESTS |-> 429,
     INTERNAL_SERVER_ERROR |-> 500, SERVICE_UNAVAILABLE |-> 503,
     GATEWAY_TIMEOUT |-> 504]

(* { ...f, ...g }: the keys of both, g's value where both have the key.    *)
spread(f, g) ==
    [k \in DOMAIN f \cup DOMAIN g |-> IF k \in DOMAIN g THEN g[k] ELSE f[k]]

(* const { k = default } = o: the default applies when o.k is undefined,   *)
(* whether the key is missing or present with the value undefined.         *)
withDefault(o, k, default) ==
    IF k \in DOMAIN o /\ o[k] # Undef THEN o[k][1] ELSE default

(* const { k } = o                                                         *)
prop(o, k) == IF k \in DOMAIN o THEN o[k] ELSE Undef

(* The objects a construction allocates: the details literal of a variant, *)
(* and the {} defaults of the base constructor.                            *)
variantDetailsRef(id) == id \o ".variantDetails"

defaultDetailsRef(id) == id \o ".details"

defaultContextRef(id) == id \o ".context"

(* Presets that also mark the variant retryable.                           *)
preset_retryable(message, statusCode, code) ==
    [message |-> Some(message), statusCode |-> Some(statusCode), code |-> Some(code),
     retryable |-> Some(TRUE)]

preset(message, statusCode, code) ==
    [message |-> Some(message), statusCode |-> Some(statusCode), code |-> Some(code)]

HttpVariants ==
    {"BadRequestException", "UnauthorizedException", "ForbiddenException",
     "NotFoundException", "MethodNotAllowedException", "ConflictException",
     "UnprocessableEntityException", "TooManyRequestsException",
     "InternalServerErrorException", "ServiceUnavailableException",
     "GatewayTimeoutException"}

(* What each HTTP variant passes to super() before ...options.             *)
HttpPreset(V) ==
    CASE V = "BadRequestException" ->
           preset("Bad Request", StatusCodes.BAD_REQUEST, "BAD_REQUEST")
      [] V = "UnauthorizedException" ->
           preset("Unauthorized", StatusCodes.UNAUTHORIZED, "UNAUTHORIZED")
      [] V = "ForbiddenException" ->
           preset("Forbidden", StatusCodes.FORBIDDEN, "FORBIDDEN")
      [] V = "NotFoundException" ->
           preset("Not Found", StatusCodes.NOT_FOUND, "NOT_FOUND")
      [] V = "MethodNotAllowedException" ->
           preset("Method Not Allowed", StatusCodes.METHOD_NOT_ALLOWED, "METHOD_NOT_ALLOWED")
      [] V = "ConflictException" ->
           preset("Conflict", StatusCodes.CONFLICT, "CONFLICT")
      [] V = "UnprocessableEntityException" ->
           preset("Unprocessable Entity", StatusCodes.UNPROCESSABLE_ENTITY,
                  "UNPROCESSABLE_ENTITY")
      [] V = "TooManyRequestsException" ->
           spread(preset("Too Many Requests", StatusCodes.TOO_MANY_REQUESTS,
                         "TOO_MANY_REQUESTS"),
                  [retryable |-> Some(TRUE)])
      [] V = "InternalServerErrorException" ->
           spread(preset("Internal Server Error", StatusCodes.INTERNAL_SERVER_ERROR,
                         "INTERNAL_SERVER_ERROR"),
                  [isOperational |-> Some(FALSE)])
      [] V = "ServiceUnavailableException" ->
           spread(preset("Service Unavailable", StatusCodes.SERVICE_UNAVAILABLE,
                         "SERVICE_UNAVAILABLE"),
                  [retryable |-> Some(TRUE), isOperational |-> Some(FALSE)])
      [] V = "GatewayTimeoutException" ->
           spread(preset("Gateway Timeout", StatusCodes.GATEWAY_TIMEOUT,
                         "GATEWAY_TIMEOUT"),
                  [retryable |-> Some(TRUE), isOperational |-> Some(FALSE)])

BusinessVariants ==
    {"ValidationException", "AuthenticationException", "AuthorizationException",
     "ResourceNotFoundException", "DuplicateResourceException",
     "InsufficientPermissionsException", "RateLimitExceededException",
     "BusinessRuleViolationException", "DataIntegrityException",
     "ConfigurationException", "FeatureNotAvailableException",
     "MaintenanceModeException"}

(* The details literal of a business variant built from its positional     *)
(* arguments a.                                                            *)
BusinessDetails(V, a) ==
    CASE V = "ResourceNotFoundException" ->
           [resourceType |-> Some(a[1]), resourceId |-> Some(a[2])]
      [] V = "DuplicateResourceException" ->
           [resourceType |-> Some(a[1]), field |-> Some(a[2]), value |-> Some(a[3])]
      [] V = "InsufficientPermissionsException" ->
           [requiredPermission |-> Some(a[1])]
      [] V = "RateLimitExceededException" ->
           [limit |-> Some(a[1]), window |-> Some(a[2])]
      [] V = "BusinessRuleViolationException" ->
           spread([rule |-> Some(a[1])], IF a[2] = Undef THEN << >> ELSE a[2][1])
      [] V = "DataIntegrityException" ->
           [constraint |-> Some(a[1])]
      [] V = "ConfigurationException" ->
           [configKey |-> Some(a[1])]
      [] V = "FeatureNotAvailableException" ->
           [feature |-> Some(a[1])]
      [] V = "MaintenanceModeException" ->
           [estimatedDuration |-> a[1]]

(* What each business variant passes to super() before ...options.         *)
BusinessPreset(V, a, id) ==
    LET d == [details |-> Some(variantDetailsRef(id))] IN
    CASE V = "ValidationException" ->
           preset("Validation Error", StatusCodes.UNPROCESSABLE_ENTITY, "VALIDATION_ERROR")
      [] V = "AuthenticationException" ->
           preset("Authentication Failed", StatusCodes.UNAUTHORIZED,
                  "AUTHENTICATION_FAILED")
      [] V = "AuthorizationException" ->
           preset("Authorization Failed", StatusCodes.FORBIDDEN, "AUTHORIZATION_FAILED")
      [] V = "ResourceNotFoundException" ->
           spread(preset(a[1] \o " with id '" \o a[2] \o "' not found",
                         StatusCodes.NOT_FOUND, "RESOURCE_NOT_FOUND"), d)
      [] V = "DuplicateResourceException" ->
           spread(preset(a[1] \o " with " \o a[2] \o " '" \o a[3] \o "' already exists",
                         StatusCodes.CONFLICT, "DUPLICATE_RESOURCE"), d)
      [] V = "InsufficientPermissionsException" ->
           spread(preset("Insufficient permissions. Required: " \o a[1],
                         StatusCodes.FORBIDDEN, "INSUFFICIENT_PERMISSIONS"), d)
      [] V = "RateLimitExceededException" ->
           spread(spread(preset("Rate limit exceeded. Limit: " \o ToString(a[1])
                                  \o " requests per " \o a[2],
                                StatusCodes.TOO_MANY_REQUESTS, "RATE_LIMIT_EXCEEDED"), d),
                  [retryable |-> Some(TRUE)])
      [] V = "BusinessRuleViolationException" ->
           spread(preset("Business rule violation: " \o a[1],
                         StatusCodes.UNPROCESSABLE_ENTITY, "BUSINESS_RULE_VIOLATION"), d)
      [] V = "DataIntegrityException" ->
           spread(preset("Data integrity constraint violated: " \o a[1],
                         StatusCodes.CONFLICT, "DATA_INTEGRITY_VIOLATION"), d)
      [] V = "ConfigurationException" ->
           spread(spread(preset("Configuration error: " \o a[1],
                                StatusCodes.INTERNAL_SERVER_ERROR, "CONFIGURATION_ERROR"), d),
                  [isOperational |-> Some(FALSE)])
      [] V = "FeatureNotAvailableException" ->
           spread(preset("Feature '" \o a[1] \o "' is not available",
                         StatusCodes.SERVICE_UNAVAILABLE, "FEATURE_NOT_AVAILABLE"), d)
      [] V = "MaintenanceModeException" ->
           spread(spread(preset("Service is currently under maintenance",
                                StatusCodes.SERVICE_UNAVAILABLE, "MAINTENANCE_MODE"), d),
                  [retryable |-> Some(TRUE)])

InfraVariants ==
    {"DatabaseConnectionException", "DatabaseQueryException",
     "DatabaseTransactionException", "DatabaseConstraintException",
     "ExternalServiceException", "ExternalServiceTimeoutException",
     "ExternalServiceUnavailableException", "CacheException",
     "FileSystemException", "NetworkException", "ThirdPartyAPIException"}

(* The details literal of an infrastructure variant.                       *)
InfraDetails(V, a) ==
    CASE V = "DatabaseConnectionException" -> [database |-> Some(a[1])]
      [] V = "DatabaseQueryException" -> [query |-> Some(a[1])]
      [] V = "DatabaseTransactionException" -> [operation |-> Some(a[1])]
      [] V = "DatabaseConstraintException" ->
           [constraint |-> Some(a[1]), table |-> Some(a[2])]
      [] V = "ExternalServiceException" ->
           [service |-> Some(a[1]), endpoint |-> Some(a[2])]
      [] V = "ExternalServiceTimeoutException" ->
           [service |-> Some(a[1]), timeout |-> Some(a[2])]
      [] V = "ExternalServiceUnavailableException" -> [service |-> Some(a[1])]
      [] V = "CacheException" -> [operation |-> Some(a[1]), key |-> a[2]]
      [] V = "FileSystemException" -> [operation |-> Some(a[1]), path |-> Some(a[2])]
      [] V = "NetworkException" -> [operation |-> Some(a[1]), url |-> Some(a[2])]
      [] V = "ThirdPartyAPIException" ->
           [api |-> Some(a[1]), endpoint |-> Some(a[2]), apiStatusCode |-> a[3]]

(* What each infrastructure variant passes to super() before ...options.   *)
InfraPreset(V, a, id) ==
    LET d == [details |-> Some(variantDetailsRef(id))]
        retry == [retryable |-> Some(TRUE)]
        notOp == [isOperational |-> Some(FALSE)]
    IN
    CASE V = "DatabaseConnectionException" ->
           spread(spread(spread(preset("Database connection failed: " \o a[1],
               StatusCodes.SERVICE_UNAVAILABLE, "DATABASE_CONNECTION_ERROR"), d), retry), notOp)
      [] V = "DatabaseQueryException" ->
           spread(spread(preset("Database query failed",
               StatusCodes.INTERNAL_SERVER_ERROR, "DATABASE_QUERY_ERROR"), d), notOp)
      [] V = "DatabaseTransactionException" ->
           spread(spread(preset("Database transaction failed: " \o a[1],
               StatusCodes.INTERNAL_SERVER_ERROR, "DATABASE_TRANSACTION_ERROR"), d), notOp)
      [] V = "DatabaseConstraintException" ->
           spread(preset("Database constraint violated: " \o a[1],
               StatusCodes.CONFLICT, "DATABASE_CONSTRAINT_VIOLATION"), d)
      [] V = "ExternalServiceException" ->
           spread(spread(spread(preset("External service error: " \o a[1],
               StatusCodes.SERVICE_UNAVAILABLE, "EXTERNAL_SERVICE_ERROR"), d), retry), notOp)
      [] V = "ExternalServiceTimeoutException" ->
           spread(spread(spread(preset("External service timeout: " \o a[1],
               StatusCodes.GATEWAY_TIMEOUT, "EXTERNAL_SERVICE_TIMEOUT"), d), retry), notOp)
      [] V = "ExternalServiceUnavailableException" ->
           spread(spread(spread(preset("External service unavailable: " \o a[1],
               StatusCodes.SERVICE_UNAVAILABLE, "EXTERNAL_SERVICE_UNAVAILABLE"), d), retry), notOp)
      [] V = "CacheException" ->
           spread(spread(spread(preset("Cache operation failed: " \o a[1],
               StatusCodes.INTERNAL_SERVER_ERROR, "CACHE_ERROR"), d), retry), notOp)
      [] V = "FileSystemException" ->
           spread(spread(preset("File system operation failed: " \o a[1],
               StatusCodes.INTERNAL_SERVER_ERROR, "FILE_SYSTEM_ERROR"), d), notOp)
      [] V = "NetworkException" ->
           spread(spread(spread(preset("Network operation failed: " \o a[1],
               StatusCodes.SERVICE_UNAVAILABLE, "NETWORK_ERROR"), d), retry), notOp)
      [] V = "ThirdPartyAPIException" ->
           spread(spread(spread(preset("Third-party API error: " \o a[1],
               (IF a[3] # Undef /\ a[3][1] # 0
                THEN a[3][1] ELSE StatusCodes.SERVICE_UNAVAILABLE),
               "THIRD_PARTY_API_ERROR"), d), retry), notOp)

(* A subclass that hands its options to super() unchanged.                 *)
TestVariants == {"TestException"}

Variants == TestVariants \cup HttpVariants \cup BusinessVariants \cup InfraVariants

(* The positional arguments the model constructs each variant with.  An    *)
(* optional parameter is an optional value.                                *)
VariantArgs(V) ==
    CASE V = "ResourceNotFoundException" -> {<<"User", "123">>}
      [] V = "DuplicateResourceException" -> {<<"User", "email", "a@b.c">>}
      [] V = "InsufficientPermissionsException" -> {<<"admin">>}
      [] V = "RateLimitExceededException" -> {<<5, "minute">>}
      [] V = "BusinessRuleViolationException" ->
           {<<"maxItems", Undef>>,
            <<"maxItems", Some([order |-> Some("o1")])>>,
            <<"maxItems", Some([rule |-> Some("other")])>>}
      [] V = "DataIntegrityException" -> {<<"fk_user">>}
      [] V = "ConfigurationException" -> {<<"DB_URL">>}
      [] V = "FeatureNotAvailableException" -> {<<"beta">>}
      [] V = "MaintenanceModeException" -> {<<Undef>>, <<Some("1h")>>}
      [] V = "DatabaseConnectionException" -> {<<"main">>}
      [] V = "DatabaseQueryException" -> {<<"SELECT 1">>}
      [] V = "DatabaseTransactionException" -> {<<"commit">>}
      [] V = "DatabaseConstraintException" -> {<<"uq_email", "users">>}
      [] V = "ExternalServiceException" -> {<<"billing", "/charge">>}
      [] V = "ExternalServiceTimeoutException" -> {<<"billing", 5000>>}
      [] V = "ExternalServiceUnavailableException" -> {<<"billing">>}
      [] V = "CacheException" -> {<<"get", Undef>>, <<"get", Some("k1")>>}
      [] V = "FileSystemException" -> {<<"read", "/tmp/x">>}
      [] V = "NetworkException" -> {<<"fetch", "http://x">>}
      [] V = "ThirdPartyAPIException" ->
           {<<"stripe", "/v1", Undef>>, <<"stripe", "/v1", Some(0)>>,
            <<"stripe", "/v1", Some(429)>>, <<"stripe", "/v1", Some(520)>>}
      [] OTHER -> {<< >>}

VariantPreset(V, a, id) ==
    IF V \in HttpVariants THEN HttpPreset(V)
    ELSE IF V \in BusinessVariants THEN BusinessPreset(V, a, id)
    ELSE IF V \in InfraVariants THEN InfraPreset(V, a, id)
    ELSE << >>

VariantDetails(V, a) ==
    IF V \in BusinessVariants THEN BusinessDetails(V, a) ELSE InfraDetails(V, a)

(* The constructor of BaseException, given the options object handed to    *)
(* super(), the variant's class name and the value of new Date().          *)
BaseException(name, options, id, now) ==
    [name |-> name,
     message |-> withDefault(options, "message", "An error occurred"),
     statusCode |-> withDefault(options, "statusCode", StatusCodes.INTERNAL_SERVER_ERROR),
     code |-> withDefault(options, "code", "INTERNAL_ERROR"),
     details |-> withDefault(options, "details", defaultDetailsRef(id)),
     timestamp |-> withDefault(options, "timestamp", now),
     requestId |-> prop(options, "requestId"),
     userId |-> prop(options, "userId"),
     context |-> withDefault(options, "context", defaultContextRef(id)),
     isOperational |-> withDefault(options, "isOperational", TRUE),
     retryable |-> withDefault(options, "retryable", FALSE),
     logLevel |-> withDefault(options, "logLevel", "error"),
     cause |-> prop(options, "cause")]

(* A variant that spreads its presets over the options: presets win.       *)
newException_presetsWin(V, a, options, id, now) ==
    BaseException(V, spread(options, VariantPreset(V, a, id)), id, now)

(* new V(...a, options): the variant spreads options over its presets and  *)
(* hands the result to the base constructor.                               *)
newException(V, a, options, id, now) ==
    BaseException(V, spread(VariantPreset(V, a, id), options), id, now)

(* isClientError with <= 500 for < 500.                                    *)
isClientError_inclusive(e) == e.statusCode >= 400 /\ e.statusCode <= 500

isClientError(e) == e.statusCode >= 400 /\ e.statusCode < 500

isServerError(e) == e.statusCode >= 500 /\ e.statusCode < 600

isRetryable(e) == e.retryable

(* JavaScript truthiness of an optional string.                            *)
truthyString(v) == v # Undef /\ v[1] # ""

(* JavaScript truthiness of this.details: it holds a reference to an       *)
(* object, and every object is truthy, an empty one too.                   *)
truthyObject(ref) == TRUE

toResponse(e, nodeEnv) ==
    LET base == [name |-> e.name, message |-> e.message, code |-> e.code,
                 statusCode |-> e.statusCode]
        withDetails ==
            IF nodeEnv = Some("development") \/ truthyObject(e.details)
            THEN spread(base, [details |-> e.details])
            ELSE base
        withRequestId ==
            IF truthyString(e.requestId)
            THEN spread(withDetails, [requestId |-> e.requestId[1]])
            ELSE withDetails
    IN [error |-> withRequestId]

(***************************************************************************)
(* The caller: it builds an options object, constructs an exception with   *)
(* it and asks for the response payload.                                   *)
(***************************************************************************)
ScalarOptionKeys ==
    {"message", "statusCode", "code", "cause", "timestamp", "requestId", "userId",
     "isOperational", "retryable", "logLevel"}

(* The values the caller may give an option; each may also be given as     *)
(* undefined.                                                              *)
OptionValues(k) ==
    CASE k = "message" -> {Undef, Some("Custom error message")}
      [] k = "statusCode" ->
           {Undef} \cup {Some(n) : n \in {100, 200, 399, 400, 499, 500, 599, 600}}
      [] k = "code" -> {Undef, Some("CUSTOM_ERROR")}
      [] k = "cause" -> {Undef, Some("cause")}
      [] k = "timestamp" -> {Undef, Some(0)}
      [] k = "requestId" -> {Undef, Some("req-123"), Some("")}
      [] k = "userId" -> {Undef, Some("user-456")}
      [] k = "isOperational" -> {Undef, Some(TRUE), Some(FALSE)}
      [] k = "retryable" -> {Undef, Some(TRUE), Some(FALSE)}
      [] k = "logLevel" -> {Undef, Some("warn"), Some("debug")}

(* The objects the caller may pass as details or context.                  *)
CallerMaps ==
    {<< >>, [field |-> Some("test")], [currentRequests |-> Some(7), limit |-> Some(5)]}

optionRef(k) == "options." \o k

canSetOption(k) ==
    /\ \A id \in ExcIds : excs[id] = Undef
    /\ k \notin DOMAIN opts
    /\ Cardinality(DOMAIN opts) < MaxOptKeys

(* options[k] = v for a scalar key.                                        *)
SetOption(k, v) ==
    /\ canSetOption(k)
    /\ opts' = spread(opts, [x \in {k} |-> v])
    /\ UNCHANGED <<env, ctorV, excs, heap, resp, clock, drv, ret>>

(* options.details = m or options.context = m, m an object of the caller;  *)
(* or the key set to undefined.                                            *)
SetOptionObject(k, m) ==
    /\ canSetOption(k)
    /\ opts' = spread(opts, [x \in {k} |-> Some(optionRef(k))])
    /\ heap' = spread(heap, [x \in {optionRef(k)} |-> m])
    /\ UNCHANGED <<env, ctorV, excs, resp, clock, drv, ret>>

SetOptionObjectUndefined(k) ==
    /\ canSetOption(k)
    /\ opts' = spread(opts, [x \in {k} |-> Undef])
    /\ UNCHANGED <<env, ctorV, excs, heap, resp, clock, drv, ret>>

(* The objects the construction of e allocated.                            *)
allocated(e, V, a, id) ==
    LET d == IF e.details = variantDetailsRef(id)
             THEN [x \in {e.details} |-> VariantDetails(V, a)]
             ELSE IF e.details = defaultDetailsRef(id)
             THEN [x \in {e.details} |-> << >>]
             ELSE << >>
        c == IF e.context = defaultContextRef(id)
             THEN [x \in {e.context} |-> << >>]
             ELSE << >>
    IN spread(d, c)

(* excs[id] = new V(...a, opts)                                            *)
Construct(id, V, a) ==
    /\ excs[id] = Undef
    /\ LET e == newException(V, a, opts, id, clock) IN
         /\ excs' = [excs EXCEPT ![id] = Some(e)]
         /\ heap' = spread(heap, allocated(e, V, a, id))
    /\ ctorV' = [ctorV EXCEPT ![id] = <<V, a>>]
    /\ clock' = clock + 1
    /\ UNCHANGED <<env, opts, resp, drv, ret>>

(* resp = excs[id].toResponse()                                            *)
ToResponse(id) ==
    /\ excs[id] # Undef
    /\ resp' = Some(toResponse(excs[id][1], env))
    /\ UNCHANGED <<env, opts, ctorV, excs, heap, clock, drv, ret>>

ExcIdle ==
    /\ env = Undef
    /\ opts = << >>
    /\ ctorV = [id \in ExcIds |-> << >>]
    /\ excs = [id \in ExcIds |-> Undef]
    /\ heap = << >>
    /\ resp = Undef
    /\ clock = 1
    /\ ret = Undef

ExcInit ==
    /\ env \in NodeEnvs
    /\ opts = << >>
    /\ ctorV = [id \in ExcIds |-> << >>]
    /\ excs = [id \in ExcIds |-> Undef]
    /\ heap = << >>
    /\ resp = Undef
    /\ clock = 1
    /\ ret = Undef
    /\ drv = << >>

ExcNext ==
    \/ \E k \in ScalarOptionKeys : \E v \in OptionValues(k) : SetOption(k, v)
    \/ \E k \in {"details", "context"} : \E m \in CallerMaps : SetOptionObject(k, m)
    \/ \E k \in {"details", "context"} : SetOptionObjectUndefined(k)
    \/ \E V \in Variants : \E a \in VariantArgs(V) : Construct("e1", V, a)
    \/ ToResponse("e1")

ExcSpec == ExcInit /\ [][ExcNext]_vars

(***************************************************************************)
(* The error utilities: the values they are handed                         *)
(***************************************************************************)
(* A foreign value with the properties the utilities read.  Member access  *)
(* on a string or on an object without the property gives undefined.       *)
Foreign(kind, name, message, stack, code, statusCode) ==
    [kind |-> kind, id |-> 0, retryable |-> FALSE, code |-> code,
     message |-> message, stack |-> stack, name |-> name,
     statusCode |-> statusCode]

ForeignErrors ==
    { (* new Error('Regular error'), with and without an attached statusCode *)
      Foreign("Error", Some("Error"), Some(<<"Regular", "error">>),
              Some(<<"Error", "Regular", "error">>), Undef, Undef),
      Foreign("Error", Some("Error"), Some(<<"Regular", "error">>),
              Some(<<"Error", "Regular", "error">>), Undef, Some(500)),
      Foreign("Error", Some("Error"), Some(<<"Route", "not", "found">>),
              Some(<<"Error", "Route", "not", "found">>), Undef, Some(404)),
      Foreign("Error", Some("Error"), Some(<<"offline">>),
              Some(<<"Error", "offline">>), Undef, Some(0)),
      (* new Error(), whose message is the empty string *)
      Foreign("Error", Some("Error"), Some(<< >>), Some(<<"Error">>), Undef, Undef),
      (* network errors: the code in code, in message or in stack only *)
      Foreign("Error", Some("Error"), Some(<<"ECONNRESET">>),
              Some(<<"Error", "ECONNRESET">>), Some("ECONNRESET"), Undef),
      Foreign("Error", Some("Error"), Some(<<"socket", "hang", "up">>),
              Some(<<"Error", "socket", "hang", "up">>), Some("ECONNREFUSED"), Undef),
      Foreign("Error", Some("Error"), Some(<<"connect", "ETIMEDOUT">>),
              Undef, Undef, Undef),
      Foreign("Error", Some("Error"), Some(<<"getaddrinfo", "ENOTFOUND">>),
              Undef, Some("EOTHER"), Undef),
      Foreign("Error", Some("Error"), Some(<<"boom">>),
              Some(<<"Error", "boom", "ENETUNREACH">>), Undef, Undef),
      Foreign("Error", Some("Error"), Some(<<"boom">>),
              Some(<<"Error", "boom", "EPIPE">>), Undef, Undef),
      Foreign("Error", Some("Error"), Undef, Undef, Some("EAI_AGAIN"), Undef),
      Foreign("Error", Some("Error"), Some(<<"boom">>),
              Some(<<"Error", "boom">>), Some("EACCES"), Undef),
      (* programming errors *)
      Foreign("Error", Some("TypeError"), Some(<<"x", "is", "not", "a", "function">>),
              Some(<<"TypeError", "x", "is", "not", "a", "function">>), Undef, Undef),
      Foreign("Error", Some("ReferenceError"), Some(<<"y", "is", "not", "defined">>),
              Some(<<"ReferenceError", "y", "is", "not", "defined">>), Undef, Undef),
      (* an object lacking name, message, stack and code; a string; null;  *)
      (* undefined                                                         *)
      Foreign("object", Undef, Undef, Undef, Undef, Undef),
      Foreign("object", Undef, Undef, Undef, Undef, Some(503)),
      Foreign("string", Undef, Undef, Undef, Undef, Undef),
      Foreign("null", Undef, Undef, Undef, Undef, Undef),
      Foreign("undefined", Undef, Undef, Undef, Undef, Undef) }

(* A BaseException object as a value handed around: the record, marked as  *)
(* a BaseException (instanceof holds), with the stack captured at          *)
(* construction.                                                           *)
exception(e) ==
    spread(e, [kind |-> "BaseException", id |-> 0,
               stack |-> Some(<<e.name, "at", "new", e.name>>)])

(* The modeled errors the utilities are handed.                            *)
ModeledOptions ==
    {<< >>,
     [logLevel |-> Some("warn")], [logLevel |-> Some("info")],
     [logLevel |-> Some("debug")],
     [requestId |-> Some("req-123")],
     [message |-> Some("read ECONNRESET"), code |-> Some("ECONNRESET")]}

ModeledVariants ==
    {"TestException", "BadRequestException", "NotFoundException",
     "TooManyRequestsException", "ServiceUnavailableException"}

ModeledErrors ==
    {exception(newException(V, << >>, o, "e1", 1)) :
       V \in ModeledVariants, o \in ModeledOptions}

LogLevels == {"error", "warn", "info", "debug"}

(***************************************************************************)
(* The status registry                                                     *)
(***************************************************************************)
StatusCodeCategories ==
    [INFORMATIONAL |-> <<100, 101, 102, 103>>,
     SUCCESS |-> <<200, 201, 202, 203, 204, 205, 206, 207, 208, 226>>,
     REDIRECTION |-> <<300, 301, 302, 303, 304, 305, 307, 308>>,
     CLIENT_ERROR |-> <<400, 401, 402, 403, 404, 405, 406, 407, 408, 409, 410,
                        411, 412, 413, 414, 415, 416, 417, 418, 421, 422, 423,
                        424, 425, 426, 428, 429, 431, 451>>,
     SERVER_ERROR |-> <<500, 501, 502, 503, 504, 505, 506, 507, 508, 510, 511>>]

(* Object.entries(StatusCodeCategories): the keys in insertion order.      *)
categoryEntries ==
    <<"INFORMATIONAL", "SUCCESS", "REDIRECTION", "CLIENT_ERROR", "SERVER_ERROR">>

(* isStatusCodeCategory deciding by the leading digit, not by the list.    *)
isStatusCodeCategory_range(statusCode, category) ==
    /\ statusCode \div 100 \in DOMAIN categoryEntries
    /\ categoryEntries[statusCode \div 100] = category

isStatusCodeCategory(statusCode, category) ==
    includes(StatusCodeCategories[category], statusCode)

(* The first category whose list includes the code; null (the empty        *)
(* optional) when no list does.                                            *)
getStatusCodeCategory(statusCode) ==
    LET listed(category) == includes(StatusCodeCategories[category], statusCode)
        found == SelectSeq(categoryEntries, listed)
    IN IF found = << >> THEN Undef ELSE Some(found[1])

(* The records whose status code is looked up: every variant, alone and    *)
(* with a statusCode in its options.                                       *)
StatusOptions ==
    {<< >>} \cup {[statusCode |-> v] : v \in OptionValues("statusCode")}

StatusRecords ==
    UNION {UNION {{[error |-> exception(newException(V, a, o, "e1", 1)),
                    options |-> o] : o \in StatusOptions} :
                  a \in VariantArgs(V)} :
           V \in Variants}

(***************************************************************************)
(* The error utilities                                                     *)
(***************************************************************************)
(* Reading a property of null or undefined raises a TypeError: the first   *)
(* thing every utility but shouldLogError does with a foreign error.       *)
dereferenceThrows(error) ==
    /\ ~isBaseException(error)
    /\ error.kind \in {"null", "undefined"}

(* JavaScript truthiness of an optional string held as words.              *)
truthyWords(v) == v # Undef /\ v[1] # << >>

(* truthyNumber that takes every defined number, 0 too, as truthy.         *)
truthyNumber_defined(v) == v # Undef

(* JavaScript truthiness of an optional number.                            *)
truthyNumber(v) == v # Undef /\ v[1] # 0

(* Date.prototype.toISOString                                              *)
toISOString(t) == "1970-01-01T00:00:" \o ToString(t) \o ".000Z"

isOperationalError(error) ==
    IF isBaseException(error)
    THEN error.isOperational
    ELSE /\ ~(error.stack # Undef /\ includes(error.stack[1], "TypeError"))
         /\ ~(error.stack # Undef /\ includes(error.stack[1], "ReferenceError"))
         /\ ~(error.stack # Undef /\ includes(error.stack[1], "SyntaxError"))

toJSON(e) ==
    [name |-> e.name, message |-> e.message, statusCode |-> e.statusCode,
     code |-> e.code, details |-> e.details,
     timestamp |-> toISOString(e.timestamp), requestId |-> e.requestId,
     userId |-> e.userId, context |-> e.context,
     isOperational |-> e.isOperational, retryable |-> e.retryable,
     logLevel |-> e.logLevel, stack |-> e.stack]

extractErrorDetails(error, now) ==
    IF isBaseException(error)
    THEN toJSON(error)
    ELSE [name |-> IF truthyString(error.name) THEN error.name[1] ELSE "Error",
          message |-> IF truthyWords(error.message)
                      THEN error.message[1] ELSE <<"Unknown", "error">>,
          stack |-> error.stack,
          code |-> error.code,
          statusCode |-> IF truthyNumber(error.statusCode)
                         THEN error.statusCode[1]
                         ELSE StatusCodes.INTERNAL_SERVER_ERROR,
          timestamp |-> toISOString(now)]

(* createErrorResponse that appends the stack whenever includeStack is     *)
(* set, whatever NODE_ENV is.                                              *)
createErrorResponse_anyEnv(error, includeStack, nodeEnv) ==
    IF isBaseException(error)
    THEN LET response == toResponse(error, nodeEnv) IN
         IF includeStack
         THEN [error |-> spread(response.error, [stack |-> error.stack])]
         ELSE response
    ELSE LET statusCode == IF truthyNumber(error.statusCode)
                           THEN error.statusCode[1]
                           ELSE StatusCodes.INTERNAL_SERVER_ERROR
         IN [error |->
               spread([name |-> IF truthyString(error.name)
                                THEN error.name[1] ELSE "Error",
                       message |-> IF truthyWords(error.message)
                                   THEN error.message[1]
                                   ELSE <<"Internal", "Server", "Error">>,
                       statusCode |-> statusCode],
                      IF includeStack
                      THEN [stack |-> error.stack] ELSE << >>)]

createErrorResponse(error, includeStack, nodeEnv) ==
    IF isBaseException(error)
    THEN LET response == toResponse(error, nodeEnv) IN
         IF includeStack /\ nodeEnv = Some("development")
         THEN [error |-> spread(response.error, [stack |-> error.stack])]
         ELSE response
    ELSE LET statusCode == IF truthyNumber(error.statusCode)
                           THEN error.statusCode[1]
                           ELSE StatusCodes.INTERNAL_SERVER_ERROR
         IN [error |->
               spread([name |-> IF truthyString(error.name)
                                THEN error.name[1] ELSE "Error",
                       message |-> IF truthyWords(error.message)
                                   THEN error.message[1]
                                   ELSE <<"Internal", "Server", "Error">>,
                       statusCode |-> statusCode],
                      IF includeStack /\ nodeEnv = Some("development")
                      THEN [stack |-> error.stack] ELSE << >>)]

logLevels == [error |-> 0, warn |-> 1, info |-> 2, debug |-> 3]

(* shouldLogError with === for <=: only the record's own level logs it.    *)
shouldLogError_exact(error, logLevel) ==
    IF isBaseException(error)
    THEN LET errorLogLevel == error.logLevel IN
         logLevels[errorLogLevel] = logLevels[logLevel]
    ELSE logLevel = "error"

(* shouldLogError with the comparison turned round (>= for <=).            *)
shouldLogError_reversed(error, logLevel) ==
    IF isBaseException(error)
    THEN LET errorLogLevel == error.logLevel IN
         logLevels[errorLogLevel] >= logLevels[logLevel]
    ELSE logLevel = "error"

shouldLogError(error, logLevel) ==
    IF isBaseException(error)
    THEN LET errorLogLevel == error.logLevel IN
         logLevels[errorLogLevel] <= logLevels[logLevel]
    ELSE logLevel = "error"

(* The log line, as the values interpolated into its template              *)
(* "name: message | Status: statusCode | Timestamp: timestamp" and the     *)
(* optional " | Context: ..." suffix.                                      *)
formatErrorForLogging(error, context, now) ==
    LET details == extractErrorDetails(error, now) IN
    [name |-> details.name, message |-> details.message,
     statusCode |-> details.statusCode, timestamp |-> details.timestamp,
     contextStr |-> context]

(***************************************************************************)
(* validateRequiredFields                                                  *)
(***************************************************************************)
MaxFields == 2

(* JavaScript values of an object's fields.  A field is an optional value: *)
(* a missing key and a key holding undefined both read as undefined.       *)
Str(s) == [type |-> "string", value |-> s]

Null == [type |-> "null", value |-> "null"]

Zero == [type |-> "number", value |-> "0"]

FieldValues == {Undef, Some(Null), Some(Str("")), Some(Str("John")), Some(Zero)}

ObjectKeys == {"name", "email"}

Objects ==
    UNION {[K -> FieldValues] : K \in SUBSET ObjectKeys}

FieldNames == {"name", "email", "age"}

FieldLists ==
    UNION {[1 .. n -> FieldNames] : n \in 0 .. MaxFields}

(* Array.prototype.join; Array.prototype.filter is SelectSeq.               *)
RECURSIVE join(_, _)
join(a, separator) ==
    IF a = << >> THEN ""
    ELSE IF Len(a) = 1 THEN a[1]
    ELSE a[1] \o separator \o join(Tail(a), separator)

newError(message) == [kind |-> "Error", name |-> "Error", message |-> message]

(* How a call ends: it returns a value or throws one.                      *)
returns(v) == [threw |-> FALSE, value |-> v]

throws(v) == [threw |-> TRUE, value |-> v]

(* validateRequiredFields that reports the first missing field only.       *)
validateRequiredFields_first(obj, requiredFields) ==
    LET missing(field) ==
            \/ prop(obj, field) = Undef
            \/ prop(obj, field) = Some(Null)
            \/ prop(obj, field) = Some(Str(""))
        missingFields == SelectSeq(requiredFields, missing)
    IN IF Len(missingFields) > 0
       THEN throws(newError("Missing required fields: " \o missingFields[1]))
       ELSE returns(Undef)

validateRequiredFields(obj, requiredFields) ==
    LET missing(field) ==
            \/ prop(obj, field) = Undef
            \/ prop(obj, field) = Some(Null)
            \/ prop(obj, field) = Some(Str(""))
        missingFields == SelectSeq(requiredFields, missing)
    IN IF Len(missingFields) > 0
       THEN throws(newError("Missing required fields: " \o join(missingFields, ", ")))
       ELSE returns(Undef)

(***************************************************************************)
(* Calls of the utilities.  ret holds the call to make, a utility and its  *)
(* arguments, and after the call also how it ended.                        *)
(***************************************************************************)
recordVars == <<env, opts, ctorV, excs, heap, resp, clock>>

call(fn, args, completion) == Some(spread(spread([fn |-> fn], args), completion))

pending(fn) == ret # Undef /\ ret[1].fn = fn /\ "threw" \notin DOMAIN ret[1]

IsRetryableError ==
    /\ pending("isRetryableError")
    /\ LET error == ret[1].error IN
       ret' = call("isRetryableError", ret[1],
                   IF isRetryableErrorThrows(error)
                   THEN throws(typeError) ELSE returns(isRetryableError(error)))
    /\ UNCHANGED <<drv, recordVars>>

IsOperationalError ==
    /\ pending("isOperationalError")
    /\ LET error == ret[1].error IN
       ret' = call("isOperationalError", ret[1],
                   IF dereferenceThrows(error)
                   THEN throws(typeError) ELSE returns(isOperationalError(error)))
    /\ UNCHANGED <<drv, recordVars>>

ExtractErrorDetails ==
    /\ pending("extractErrorDetails")
    /\ LET error == ret[1].error IN
       ret' = call("extractErrorDetails", ret[1],
                   IF dereferenceThrows(error)
                   THEN throws(typeError)
                   ELSE returns(extractErrorDetails(error, clock)))
    /\ UNCHANGED <<drv, recordVars>>

CreateErrorResponse ==
    /\ pending("createErrorResponse")
    /\ LET error == ret[1].error IN
       ret' = call("createErrorResponse", ret[1],
                   IF dereferenceThrows(error)
                   THEN throws(typeError)
                   ELSE returns(createErrorResponse(error, ret[1].includeStack, env)))
    /\ UNCHANGED <<drv, recordVars>>

ShouldLogError ==
    /\ pending("shouldLogError")
    /\ ret' = call("shouldLogError", ret[1],
                   returns(shouldLogError(ret[1].error, ret[1].logLevel)))
    /\ UNCHANGED <<drv, recordVars>>

FormatErrorForLogging ==
    /\ pending("formatErrorForLogging")
    /\ LET error == ret[1].error IN
       ret' = call("formatErrorForLogging", ret[1],
                   IF dereferenceThrows(error)
                   THEN throws(typeError)
                   ELSE returns(formatErrorForLogging(error, ret[1].context, clock)))
    /\ UNCHANGED <<drv, recordVars>>

ValidateRequiredFields ==
    /\ pending("validateRequiredFields")
    /\ ret' = call("validateRequiredFields", ret[1],
                   validateRequiredFields(ret[1].obj, ret[1].requiredFields))
    /\ UNCHANGED <<drv, recordVars>>

(* getStatusCodeCategory(error.statusCode)                                 *)
GetStatusCodeCategory ==
    /\ pending("getStatusCodeCategory")
    /\ ret' = call("getStatusCodeCategory", ret[1],
                   returns(getStatusCodeCategory(ret[1].statusCode)))
    /\ UNCHANGED <<drv, recordVars>>

(* isStatusCodeCategory(error.statusCode, category)                        *)
IsStatusCodeCategory ==
    /\ pending("isStatusCodeCategory")
    /\ ret' = call("isStatusCodeCategory", ret[1],
                   returns(isStatusCodeCategory(ret[1].statusCode, ret[1].category)))
    /\ UNCHANGED <<drv, recordVars>>

ErrorValues == ForeignErrors \cup ModeledErrors

(* The calls the model makes.                                              *)
UtilCalls ==
    {[fn |-> fn, error |-> error] :
       fn \in {"isRetryableError", "isOperationalError", "extractErrorDetails"},
       error \in ErrorValues}
    \cup {[fn |-> "createErrorResponse", error |-> error, includeStack |-> b] :
            error \in ErrorValues, b \in BOOLEAN}
    \cup {[fn |-> "shouldLogError", error |-> error, logLevel |-> l] :
            error \in ErrorValues, l \in LogLevels}
    \cup {[fn |-> "formatErrorForLogging", error |-> error, context |-> c] :
            error \in ErrorValues, c \in {Undef, Some("options.context")}}
    \cup {[fn |-> "validateRequiredFields", obj |-> obj, requiredFields |-> f] :
            obj \in Objects, f \in FieldLists}
    \cup {[fn |-> "getStatusCodeCategory", error |-> r.error, options |-> r.options,
             statusCode |-> r.error.statusCode] : r \in StatusRecords}
    \cup {[fn |-> "isStatusCodeCategory", error |-> r.error, options |-> r.options,
             statusCode |-> r.error.statusCode, category |-> c] :
            r \in StatusRecords, c \in DOMAIN StatusCodeCategories}

UtilInit ==
    /\ env \in NodeEnvs
    /\ opts = << >>
    /\ ctorV = [id \in ExcIds |-> << >>]
    /\ excs = [id \in ExcIds |-> Undef]
    /\ heap = << >>
    /\ resp = Undef
    /\ clock = 1
    /\ ret \in {Some(c) : c \in UtilCalls}
    /\ drv = << >>

UtilNext ==
    \/ IsRetryableError
    \/ IsOperationalError
    \/ ExtractErrorDetails
    \/ CreateErrorResponse
    \/ ShouldLogError
    \/ FormatErrorForLogging
    \/ ValidateRequiredFields
    \/ GetStatusCodeCategory
    \/ IsStatusCodeCategory

UtilSpec == UtilInit /\ [][UtilNext]_vars

(***************************************************************************)
(* The life of a record: the methods that change it, and errorHandler      *)
(***************************************************************************)
(* setRequestId that also resets the retryable flag.                       *)
setRequestId_resets(e, requestId) ==
    [e EXCEPT !.requestId = requestId, !.retryable = FALSE]

setRequestId(e, requestId) == [e EXCEPT !.requestId = requestId]

setUserId(e, userId) == [e EXCEPT !.userId = userId]

(* this.context[key] = value and this.details[key] = value, on the heap h. *)
addContext(h, e, key, value) ==
    [h EXCEPT ![e.context] = spread(@, [x \in {key} |-> value])]

(* addDetail that replaces the details by the one entry added.             *)
addDetail_replace(h, e, key, value) ==
    [h EXCEPT ![e.details] = [x \in {key} |-> value]]

addDetail(h, e, key, value) ==
    [h EXCEPT ![e.details] = spread(@, [x \in {key} |-> value])]

(* e.addContext(key, value), which returns the record it was called on.    *)
AddContext(id, key, value) ==
    /\ excs[id] # Undef
    /\ heap' = addContext(heap, excs[id][1], key, value)
    /\ ret' = call("addContext", [this |-> id, key |-> key, arg |-> value],
                   returns(id))
    /\ UNCHANGED <<env, opts, ctorV, excs, resp, clock, drv>>

AddDetail(id, key, value) ==
    /\ excs[id] # Undef
    /\ heap' = addDetail(heap, excs[id][1], key, value)
    /\ ret' = call("addDetail", [this |-> id, key |-> key, arg |-> value],
                   returns(id))
    /\ UNCHANGED <<env, opts, ctorV, excs, resp, clock, drv>>

SetRequestId(id, requestId) ==
    /\ excs[id] # Undef
    /\ excs' = [excs EXCEPT ![id] = Some(setRequestId(@[1], requestId))]
    /\ ret' = call("setRequestId", [this |-> id, arg |-> requestId], returns(id))
    /\ UNCHANGED <<env, opts, ctorV, heap, resp, clock, drv>>

SetUserId(id, userId) ==
    /\ excs[id] # Undef
    /\ excs' = [excs EXCEPT ![id] = Some(setUserId(@[1], userId))]
    /\ ret' = call("setUserId", [this |-> id, arg |-> userId], returns(id))
    /\ UNCHANGED <<env, opts, ctorV, heap, resp, clock, drv>>

ToJSON(id) ==
    /\ excs[id] # Undef
    /\ ret' = call("toJSON", [this |-> id], returns(toJSON(exception(excs[id][1]))))
    /\ UNCHANGED <<env, opts, ctorV, excs, heap, resp, clock, drv>>

(* The requests errorHandler sees: req.requestId is set when               *)
(* requestIdMiddleware ran, req.user when the request is authenticated.    *)
Request(requestId, userId, userAgent) ==
    [requestId |-> requestId, userId |-> userId, url |-> "/api/users/1",
     method |-> "GET", ip |-> "::1", userAgent |-> userAgent]

Requests ==
    {Request(Undef, Undef, Undef),
     Request(Some("req-9"), Some("user-1"), Some("curl"))}

(* The error passed to errorHandler: the record id, or a foreign error.    *)
recordError(id) == [kind |-> "BaseException", ref |-> id]

(* The status errorHandler sends with an error status read as the body's,  *)
(* without the || 500 fallback for a falsy one.                            *)
responseStatus_unchecked(error) ==
    IF isBaseException(error)
    THEN error.statusCode
    ELSE IF error.statusCode # Undef
         THEN error.statusCode[1] ELSE StatusCodes.INTERNAL_SERVER_ERROR

(* isBaseException(error) ? error.statusCode : (error.statusCode || 500)   *)
responseStatus(error) ==
    IF isBaseException(error)
    THEN error.statusCode
    ELSE IF truthyNumber(error.statusCode)
         THEN error.statusCode[1] ELSE StatusCodes.INTERNAL_SERVER_ERROR

(* errorHandler(error, req, res, next): enrich a modeled error, log, build *)
(* the body and send it.  The outcome is what res was given and what was   *)
(* logged; with null or undefined for error, formatErrorForLogging throws  *)
(* before anything is sent.                                                *)
ErrorHandler(error, req) ==
    LET modeled == isBaseException(error)
        old == excs[error.ref][1]
        e == LET withRequestId == setRequestId(old, req.requestId) IN
             IF truthyString(req.userId)
             THEN setUserId(withRequestId, req.userId)
             ELSE withRequestId
        h == addContext(
               addContext(
                 addContext(
                   addContext(heap, old, "url", Some(req.url)),
                   old, "method", Some(req.method)),
                 old, "ip", Some(req.ip)),
               old, "userAgent", req.userAgent)
        value == IF modeled THEN exception(e) ELSE error
        context == Some([url |-> req.url, method |-> req.method, ip |-> req.ip,
                         userAgent |-> req.userAgent, requestId |-> req.requestId])
        logged == IF shouldLogError(value, "error")
                  THEN Some(formatErrorForLogging(value, context, clock))
                  ELSE Undef
        errorResponse == createErrorResponse(value, env = Some("development"), env)
        statusCode == responseStatus(value)
    IN /\ modeled => excs[error.ref] # Undef
       /\ excs' = IF modeled THEN [excs EXCEPT ![error.ref] = Some(e)] ELSE excs
       /\ heap' = IF modeled THEN h ELSE heap
       /\ ret' = call("errorHandler", [error |-> error, req |-> req],
                      IF dereferenceThrows(error)
                      THEN throws(typeError)
                      ELSE returns([status |-> statusCode, json |-> errorResponse,
                                    logged |-> logged]))
       /\ UNCHANGED <<env, opts, ctorV, resp, clock, drv>>

(* The options objects the caller constructs the record with, with the     *)
(* caller's own details and context objects: none, one for each, or one    *)
(* object passed as both.  A request fails with one error: the record, or  *)
(* a foreign error when no record was constructed.                         *)
LifeCallers ==
    {[opts |-> << >>, heap |-> << >>],
     [opts |-> [requestId |-> Some("req-123")], heap |-> << >>],
     [opts |-> [retryable |-> Some(FALSE), timestamp |-> Some(0)], heap |-> << >>],
     [opts |-> [details |-> Some(optionRef("details")),
                context |-> Some(optionRef("context"))],
      heap |-> [x \in {optionRef("details"), optionRef("context")} |->
                  IF x = optionRef("details")
                  THEN [field |-> Some("test")] ELSE [trace |-> Some("t0")]]],
     [opts |-> [details |-> Some("shared"), context |-> Some("shared")],
      heap |-> [x \in {"shared"} |-> [field |-> Some("test")]]]}

LifeVariants == {"NotFoundException", "RateLimitExceededException"}

(* The foreign errors that reach errorHandler: a plain Error, the 404 of   *)
(* notFoundHandler, an Error with statusCode 0, and null.                  *)
HandledForeignErrors ==
    {x \in ForeignErrors :
       /\ x.code = Undef
       /\ \/ x.kind = "null"
          \/ /\ x.kind = "Error"
             /\ x.message \in {Some(<<"Regular", "error">>),
                                Some(<<"Route", "not", "found">>),
                                Some(<<"offline">>)}
             /\ x.statusCode # Some(500)}

LifeInit ==
    /\ env \in NodeEnvs
    /\ \E c \in LifeCallers : opts = c.opts /\ heap = c.heap
    /\ ctorV = [id \in ExcIds |-> << >>]
    /\ excs = [id \in ExcIds |-> Undef]
    /\ resp = Undef
    /\ clock = 1
    /\ ret = Undef
    /\ drv = << >>

LifeNext ==
    \/ \E V \in LifeVariants : \E a \in VariantArgs(V) : Construct("e1", V, a)
    \/ \E key \in {"trace"}, value \in {Some("t1")} : AddContext("e1", key, value)
    \/ \E key \in {"field"}, value \in {Some("a"), Some("b")} :
         AddDetail("e1", key, value)
    \/ SetRequestId("e1", Some("req-7"))
    \/ SetUserId("e1", Some("user-2"))
    \/ ToJSON("e1")
    \/ ToResponse("e1")
    \/ \E req \in Requests : ErrorHandler(recordError("e1"), req)
    \/ /\ excs["e1"] = Undef
       /\ \E error \in HandledForeignErrors, req \in Requests :
            ErrorHandler(error, req)

LifeSpec == LifeInit /\ [][LifeNext]_vars

(***************************************************************************)
(* asyncErrorHandler(fn): the wrapper it returns is called with a request. *)
(* fn either throws before it returns (a function that is not async),      *)
(* returns a promise that is rejected (an async function that throws, or   *)
(* any rejected promise), or returns a promise that is fulfilled.          *)
(***************************************************************************)
Handlers == {"throws", "rejects", "fulfils"}

AsyncCalls ==
    {[fn |-> "asyncErrorHandler", handler |-> h, error |-> error] :
       h \in Handlers \ {"fulfils"}, error \in ErrorValues}
    \cup {[fn |-> "asyncErrorHandler", handler |-> "fulfils"]}

(* Promise.resolve(fn(req, res, next)).catch(next): fn is called first; if *)
(* it throws, the throw leaves the wrapper and no promise exists; else the *)
(* promise is pending with catch(next) attached and the wrapper returns.   *)
(* next records the calls of next made by the wrapper.                     *)
asyncErrorHandler(c) ==
    IF c.handler = "throws"
    THEN spread(spread(c, throws(c.error)), [promise |-> "none", next |-> << >>])
    ELSE spread(spread(c, returns(Undef)), [promise |-> "pending", next |-> << >>])

(* A rejection that catch does not hand to next.                           *)
onRejected_swallowed(c, reason) ==
    [c EXCEPT !.promise = "rejected"]

(* The promise is rejected: catch(next) calls next(reason).                *)
onRejected(c, reason) ==
    [c EXCEPT !.promise = "rejected", !.next = Append(@, reason)]

(* The promise is fulfilled: catch(next) does nothing.                     *)
onFulfilled(c) ==
    [c EXCEPT !.promise = "fulfilled"]

AsyncErrorHandler ==
    /\ pending("asyncErrorHandler")
    /\ ret' = Some(asyncErrorHandler(ret[1]))
    /\ UNCHANGED <<drv, recordVars>>

PromiseRejects ==
    /\ ret # Undef
    /\ ret[1].fn = "asyncErrorHandler"
    /\ ~pending("asyncErrorHandler")
    /\ ret[1].promise = "pending"
    /\ ret[1].handler = "rejects"
    /\ ret' = Some(onRejected(ret[1], ret[1].error))
    /\ UNCHANGED <<drv, recordVars>>

PromiseFulfils ==
    /\ ret # Undef
    /\ ret[1].fn = "asyncErrorHandler"
    /\ ~pending("asyncErrorHandler")
    /\ ret[1].promise = "pending"
    /\ ret[1].handler = "fulfils"
    /\ ret' = Some(onFulfilled(ret[1]))
    /\ UNCHANGED <<drv, recordVars>>

AsyncInit ==
    /\ env = Undef
    /\ opts = << >>
    /\ ctorV = [id \in ExcIds |-> << >>]
    /\ excs = [id \in ExcIds |-> Undef]
    /\ heap = << >>
    /\ resp = Undef
    /\ clock = 1
    /\ ret \in {Some(c) : c \in AsyncCalls}
    /\ drv = << >>

AsyncNext == AsyncErrorHandler \/ PromiseRejects \/ PromiseFulfils

AsyncSpec == AsyncInit /\ [][AsyncNext]_vars

(***************************************************************************)
(* Two records constructed from one options object, and then added to.     *)
(***************************************************************************)
AliasNext ==
    \/ \E id \in ExcIds, V \in LifeVariants : \E a \in VariantArgs(V) :
         Construct(id, V, a)
    \/ \E id \in ExcIds : AddContext(id, "trace", Some("t1"))
    \/ \E id \in ExcIds : AddDetail(id, "field", Some("a"))

AliasSpec == LifeInit /\ [][AliasNext]_vars

RetryInit == drv = << >>

Init == RetryInit /\ ExcIdle

Next ==
    \/ \E mr \in -1 .. MaxRetries, p \in DelayPairs : Call("A", mr, p[1], p[2])
    \/ FnResolve("A")
    \/ \E e \in ErrorShapes : FnReject("A", e)
    \/ TimerFire("A")

Spec == Init /\ [][Next]_vars

(* Every invocation of fn settles and every timer fires.                   *)
FnSettle(d) == FnResolve(d) \/ \E e \in ErrorShapes : FnReject(d, e)

FairSpec ==
    /\ Spec
    /\ \A d \in Drivers : WF_vars(FnSettle(d)) /\ WF_vars(TimerFire(d))

(***************************************************************************)
(* Two calls of retryWithBackoff in one process.  Each call has its own    *)
(* lastError and attempt (locals of the async function); the event loop    *)
(* runs one continuation at a time, in any order in which their promises   *)
(* and timers settle.                                                      *)
(***************************************************************************)
MaxConcRetries == 2

ConcDelayPairs == {<<10, 100>>, <<7, 3>>}

ConcNext ==
    \/ \E d \in Drivers, mr \in -1 .. MaxConcRetries, p \in ConcDelayPairs :
         Call(d, mr, p[1], p[2])
    \/ \E d \in Drivers : FnResolve(d)
    \/ \E d \in Drivers, e \in ErrorShapes : FnReject(d, e)
    \/ \E d \in Drivers : TimerFire(d)

ConcSpec == Init /\ [][ConcNext]_vars

(***************************************************************************)
(* Claims about the exception model                                        *)
(***************************************************************************)
constructed(id) == excs[id] # Undef

exc(id) == excs[id][1]

variantOf(id) == ctorV[id][1]

argsOf(id) == ctorV[id][2]

detailsOf(id) == heap[exc(id).details]

contextOf(id) == heap[exc(id).context]

(* The options object provides k: it carries a defined value for it.       *)
provides(k) == k \in DOMAIN opts /\ opts[k] # Undef

(* What the claim expects of field k: the value of the options, else the   *)
(* variant's preset, else the base default.                                *)
expected(id, k, baseDefault) ==
    LET P == VariantPreset(variantOf(id), argsOf(id), id) IN
    IF provides(k) THEN opts[k][1]
    ELSE IF k \in DOMAIN P THEN P[k][1]
    ELSE baseDefault

expectedDetails(id) ==
    LET P == VariantPreset(variantOf(id), argsOf(id), id) IN
    IF provides("details") THEN heap[opts.details[1]]
    ELSE IF "details" \in DOMAIN P THEN VariantDetails(variantOf(id), argsOf(id))
    ELSE << >>

overrideHolds(id) ==
    LET e == exc(id) IN
    /\ e.message = expected(id, "message", "An error occurred")
    /\ e.statusCode = expected(id, "statusCode", 500)
    /\ e.code = expected(id, "code", "INTERNAL_ERROR")
    /\ e.isOperational = expected(id, "isOperational", TRUE)
    /\ e.retryable = expected(id, "retryable", FALSE)
    /\ e.logLevel = expected(id, "logLevel", "error")
    /\ e.timestamp = expected(id, "timestamp", clock - 1)
    /\ e.requestId = prop(opts, "requestId")
    /\ e.userId = prop(opts, "userId")
    /\ provides("details") => e.details = opts.details[1]
    /\ provides("context") => e.context = opts.context[1]
    /\ DOMAIN detailsOf(id) = DOMAIN expectedDetails(id)
    /\ \A k \in DOMAIN detailsOf(id) : detailsOf(id)[k] = expectedDetails(id)[k]
    /\ ~provides("context") => DOMAIN contextOf(id) = {}

(* C7: every field of a constructed record is the value the options        *)
(* provide, else the variant's own default, else the base default.         *)
C7_ClaimedOverride ==
    \A id \in ExcIds : constructed(id) => overrideHolds(id)

(* C7, with no option given as undefined: the same statement, which holds. *)
C7_OverrideWithoutUndefined ==
    \A id \in ExcIds :
      (constructed(id) /\ \A k \in DOMAIN opts : opts[k] # Undef) => overrideHolds(id)

(* The names under which the claim expects the positional parameters of a  *)
(* parameterised business variant in details.                              *)
ParamKeys(V) ==
    CASE V = "ResourceNotFoundException" -> <<"resourceType", "resourceId">>
      [] V = "DuplicateResourceException" -> <<"resourceType", "field", "value">>
      [] V = "InsufficientPermissionsException" -> <<"requiredPermission">>
      [] V = "RateLimitExceededException" -> <<"limit", "window">>
      [] V = "BusinessRuleViolationException" -> <<"rule">>
      [] V = "DataIntegrityException" -> <<"constraint">>
      [] V = "ConfigurationException" -> <<"configKey">>
      [] V = "FeatureNotAvailableException" -> <<"feature">>
      [] V = "MaintenanceModeException" -> <<"estimatedDuration">>
      [] OTHER -> << >>

OptionalParams == {"estimatedDuration"}

(* The positional parameter number i of record id is in its details.       *)
paramInDetails(id, i) ==
    LET key == ParamKeys(variantOf(id))[i] IN
    /\ key \in DOMAIN detailsOf(id)
    /\ detailsOf(id)[key] =
         (IF key \in OptionalParams THEN argsOf(id)[i] ELSE Some(argsOf(id)[i]))

(* The entries of the positional details argument of a                     *)
(* BusinessRuleViolationException are in its details.                      *)
ruleDetailsInDetails(id) ==
    (variantOf(id) = "BusinessRuleViolationException" /\ argsOf(id)[2] # Undef)
      => \A k \in DOMAIN argsOf(id)[2][1] :
           k \in DOMAIN detailsOf(id) /\ detailsOf(id)[k] = argsOf(id)[2][1][k]

(* The positional details argument has its own rule key.                   *)
ruleShadowed(id) ==
    /\ variantOf(id) = "BusinessRuleViolationException"
    /\ argsOf(id)[2] # Undef
    /\ "rule" \in DOMAIN argsOf(id)[2][1]

(* C8 as claimed: for every options argument, the positional parameters of *)
(* a parameterised business variant are present in the record's details.   *)
C8_ClaimedParamsInDetails ==
    \A id \in ExcIds :
      constructed(id) =>
        /\ \A i \in DOMAIN ParamKeys(variantOf(id)) : paramInDetails(id, i)
        /\ ruleDetailsInDetails(id)

(* C8 as amended: the positional parameters are present in details when    *)
(* the options have no details key (the rule of a BusinessRuleViolation    *)
(* unless its positional details argument has a rule key of its own); a    *)
(* details object provided by the options replaces the variant's details.  *)
C8_ParamsInDetailsUnlessOverridden ==
    \A id \in ExcIds :
      constructed(id) =>
        /\ "details" \notin DOMAIN opts =>
             /\ \A i \in DOMAIN ParamKeys(variantOf(id)) :
                  ruleShadowed(id) \/ paramInDetails(id, i)
             /\ ruleDetailsInDetails(id)
        /\ provides("details") => exc(id).details = optionRef("details")

C8_Witness ==
    /\ constructed("e1")
    /\ variantOf("e1") = "ResourceNotFoundException"
    /\ opts = [requestId |-> Some("req-123")]
    /\ detailsOf("e1") = [resourceType |-> Some("User"), resourceId |-> Some("123")]

(* C9 as claimed: with statusCode in [100, 600), exactly one of            *)
(* isClientError() and isServerError() is true.                            *)
C9_ClaimedExactlyOne ==
    \A id \in ExcIds :
      (constructed(id) /\ exc(id).statusCode \in 100 .. 599)
        => (isClientError(exc(id)) # isServerError(exc(id)))

(* C9 as amended: the two are never both true; isClientError() is true     *)
(* exactly on [400, 500) and isServerError() exactly on [500, 600), so     *)
(* exactly one is true on [400, 600) and neither on [100, 400).            *)
C9_ClientServerPartition ==
    \A id \in ExcIds :
      constructed(id) =>
        LET sc == exc(id).statusCode IN
        /\ ~(isClientError(exc(id)) /\ isServerError(exc(id)))
        /\ isClientError(exc(id)) <=> sc \in 400 .. 499
        /\ isServerError(exc(id)) <=> sc \in 500 .. 599
        /\ sc \in 100 .. 399 => (~isClientError(exc(id)) /\ ~isServerError(exc(id)))

C9_Witness ==
    /\ constructed("e1")
    /\ exc("e1").statusCode = 200
    /\ ~isClientError(exc("e1"))
    /\ ~isServerError(exc("e1"))

(* C10: outside development, the payload of toResponse() for a record with *)
(* an empty details map has no details key.                                *)
C10_ClaimedDetailsGate ==
    (/\ resp # Undef
     /\ env # Some("development")
     /\ DOMAIN detailsOf("e1") = {})
      => "details" \notin DOMAIN resp[1].error

(***************************************************************************)
(* Claims about retryWithBackoff                                           *)
(***************************************************************************)
settled(d) == d \in DOMAIN drv /\ drv[d].pc \in {"resolved", "rejected"}

started(d) == d \in DOMAIN drv

(* C1: with maxRetries >= 0, a call of retryWithBackoff invokes the        *)
(* operation at least once and at most maxRetries + 1 times.               *)
C1_AttemptBound ==
    \A d \in Drivers :
      (started(d) /\ drv[d].maxRetries >= 0)
        => (1 <= drv[d].calls /\ drv[d].calls <= drv[d].maxRetries + 1)

C1_Witness ==
    /\ started("A")
    /\ drv["A"].pc = "rejected"
    /\ drv["A"].maxRetries = 3
    /\ drv["A"].calls = 4

(* C2: a failure with an error that isRetryableError classifies as not     *)
(* retryable, or a failure of attempt index maxRetries, rejects at once    *)
(* with that very error: no further invocation and no timer; and a settled *)
(* call does nothing more.  In particular a modeled exception with         *)
(* retryable = FALSE is never retried, whatever its message or code.       *)
C2_NoRetryAfterFinalFailure ==
    [][\A d \in DOMAIN drv :
         /\ (drv[d].pc = "awaitFn" /\ drv'[d].failures = drv[d].failures + 1)
              => LET e == drv'[d].thrown IN
                   ( \/ drv[d].attempt = drv[d].maxRetries
                     \/ (~isRetryableErrorThrows(e) /\ ~isRetryableError(e))
                     \/ (e.kind = "BaseException" /\ ~e.retryable) )
                     => /\ drv'[d].pc = "rejected"
                        /\ drv'[d].outcome = e
                        /\ drv'[d].calls = drv[d].calls
                        /\ drv'[d].delays = drv[d].delays
         /\ drv[d].pc = "rejected" => drv'[d] = drv[d]
      ]_vars

C2_Witness ==
    /\ started("A")
    /\ drv["A"].pc = "rejected"
    /\ drv["A"].attempt < drv["A"].maxRetries
    /\ drv["A"].outcome.kind = "BaseException"
    /\ ~drv["A"].outcome.retryable
    /\ drv["A"].outcome.code = Some("ECONNRESET")
    /\ drv["A"].calls = 2

(* C3: when every attempt fails with a retryable error (maxRetries >= 0),  *)
(* the call is rejected only after exactly maxRetries + 1 invocations, and *)
(* with the value the last invocation threw.                               *)
C3_ExhaustionRethrowsLast ==
    \A d \in Drivers :
      (started(d) /\ drv[d].pc = "rejected" /\ drv[d].maxRetries >= 0
         /\ drv[d].allRetryable)
        => /\ drv[d].calls = drv[d].maxRetries + 1
           /\ drv[d].failures = drv[d].calls
           /\ drv[d].outcome = drv[d].thrown
           /\ drv[d].outcome.id = drv[d].calls

C3_Witness ==
    /\ started("A")
    /\ drv["A"].pc = "rejected"
    /\ drv["A"].allRetryable
    /\ drv["A"].maxRetries = 2
    /\ drv["A"].calls = 3
    /\ drv["A"].outcome.id = 3

(* C4: when the operation fails k <= maxRetries times in a row with        *)
(* retryable errors, the call is not rejected; when it then succeeds the   *)
(* call resolves after exactly k + 1 invocations with the value of the     *)
(* successful one, and a resolved call invokes nothing more.               *)
C4_SuccessAfterRetries ==
    /\ [](\A d \in DOMAIN drv :
            /\ (drv[d].allRetryable
                   /\ drv[d].failures <= drv[d].maxRetries)
                 => drv[d].pc # "rejected"
            /\ drv[d].pc = "resolved"
                 => /\ drv[d].allRetryable
                    /\ drv[d].failures <= drv[d].maxRetries
                    /\ drv[d].calls = drv[d].failures + 1
                    /\ drv[d].outcome = successValue(drv[d].calls))
    /\ [][\A d \in DOMAIN drv : drv[d].pc = "resolved" => drv'[d] = drv[d]]_vars

C4_Witness ==
    /\ started("A")
    /\ drv["A"].pc = "resolved"
    /\ drv["A"].maxRetries = 3
    /\ drv["A"].failures = 2
    /\ drv["A"].calls = 3

(* C5: the i-th suspension of a call (i counted from 1, following the      *)
(* failed attempt of index i - 1) is min(baseDelay * 2^(i-1), maxDelay);   *)
(* none exceeds maxDelay; with (10, 100) they are 10, 20, 40, 80, 100, ... *)
C5_BackoffDelays ==
    \A d \in DOMAIN drv :
      \A i \in DOMAIN drv[d].delays :
        LET raw == drv[d].baseDelay * 2^(i - 1) IN
        /\ drv[d].delays[i] = (IF raw <= drv[d].maxDelay THEN raw ELSE drv[d].maxDelay)
        /\ drv[d].delays[i] <= drv[d].maxDelay
        /\ (drv[d].baseDelay = 10 /\ drv[d].maxDelay = 100)
             => drv[d].delays[i] = (IF i <= 4 THEN <<10, 20, 40, 80>>[i] ELSE 100)

C5_Witness ==
    /\ started("A")
    /\ drv["A"].delays = <<10, 20, 40, 80, 100, 100>>
    /\ drv["A"].attempt = 5

(* C6: provided every invocation of the operation settles and every timer  *)
(* fires, every call of retryWithBackoff eventually settles.               *)
C6_EventuallySettles ==
    \A d \in Drivers : started(d) ~> settled(d)

C6_Witness ==
    /\ started("A")
    /\ drv["A"].pc = "rejected"
    /\ drv["A"].allRetryable
    /\ drv["A"].maxRetries = 4
    /\ drv["A"].calls = 5

(***************************************************************************)
(* Claims about the error utilities                                        *)
(***************************************************************************)
done(fn) == ret # Undef /\ ret[1].fn = fn /\ "threw" \in DOMAIN ret[1]

returned(fn) == done(fn) /\ ~ret[1].threw

(* C11: the payload createErrorResponse(error, includeStack) returns has a *)
(* stack key, holding error.stack, exactly when includeStack is true and   *)
(* NODE_ENV is 'development', for modeled and foreign errors alike.        *)
C11_StackOnlyInDevelopment ==
    returned("createErrorResponse") =>
      LET body == ret[1].value.error
          wanted == ret[1].includeStack /\ env = Some("development")
      IN /\ ("stack" \in DOMAIN body) <=> wanted
         /\ wanted => body.stack = ret[1].error.stack

C11_Witness ==
    /\ returned("createErrorResponse")
    /\ ret[1].includeStack
    /\ env = Some("development")
    /\ isBaseException(ret[1].error)
    /\ ret[1].value.error.stack = Some(<<"NotFoundException", "at", "new", "NotFoundException">>)

(* C12: every body createErrorResponse produces, for a modeled or a        *)
(* foreign error, carries error.code in addition to error.message.         *)
C12_ClaimedCodeInBody ==
    returned("createErrorResponse") =>
      /\ "message" \in DOMAIN ret[1].value.error
      /\ "code" \in DOMAIN ret[1].value.error

(* C12 for modeled errors only: the same statement, which holds.           *)
C12_ModeledCodeInBody ==
    (returned("createErrorResponse") /\ isBaseException(ret[1].error)) =>
      /\ "message" \in DOMAIN ret[1].value.error
      /\ ret[1].value.error.code = ret[1].error.code

(***************************************************************************)
(* Claims about errorHandler and the life of a record                      *)
(***************************************************************************)
(* C13: whenever errorHandler sends a response, for a modeled or a foreign *)
(* error, with or without an attached statusCode, the status given to      *)
(* res.status() is the error.statusCode of the body given to json().       *)
C13_StatusMatchesBody ==
    returned("errorHandler") =>
      ret[1].value.status = ret[1].value.json.error.statusCode

C13_Witness ==
    /\ returned("errorHandler")
    /\ ~isBaseException(ret[1].error)
    /\ ret[1].error.statusCode = Some(0)
    /\ ret[1].value.status = 500
    /\ ret[1].value.json.error.statusCode = 500

(* C14 as claimed: for a foreign error the body's error.statusCode is the  *)
(* statusCode attached to the error when one is attached and 500 when none *)
(* is; for a modeled error it is the record's statusCode.                  *)
C14_ClaimedStatusCode ==
    returned("createErrorResponse") =>
      LET error == ret[1].error
          statusCode == ret[1].value.error.statusCode
      IN IF isBaseException(error) THEN statusCode = error.statusCode
         ELSE IF error.statusCode # Undef THEN statusCode = error.statusCode[1]
         ELSE statusCode = 500

(* C14 as amended: for a foreign error the body's error.statusCode is the  *)
(* attached statusCode when one is attached and it is not 0 (truthy), and  *)
(* 500 when none is attached or the attached one is 0; for a modeled error *)
(* it is the record's statusCode.                                          *)
C14_StatusCodeOrDefault ==
    returned("createErrorResponse") =>
      LET error == ret[1].error
          statusCode == ret[1].value.error.statusCode
      IN IF isBaseException(error) THEN statusCode = error.statusCode
         ELSE IF error.statusCode \notin {Undef, Some(0)}
         THEN statusCode = error.statusCode[1]
         ELSE statusCode = 500

C14_Witness ==
    /\ returned("createErrorResponse")
    /\ ~isBaseException(ret[1].error)
    /\ ret[1].error.statusCode = Some(404)
    /\ ret[1].value.error.statusCode = 404

(* C15: each of isRetryableError, isOperationalError, extractErrorDetails, *)
(* createErrorResponse, shouldLogError and formatErrorForLogging returns a *)
(* result without throwing for every foreign error value, null, undefined, *)
(* strings and objects lacking message, stack and code included.           *)
C15_ClaimedNeverThrows ==
    \A fn \in {"isRetryableError", "isOperationalError", "extractErrorDetails",
               "createErrorResponse", "shouldLogError", "formatErrorForLogging"} :
      (done(fn) /\ ~isBaseException(ret[1].error)) => ~ret[1].threw

(* C15 for foreign values other than null and undefined: the same          *)
(* statement, which holds; and shouldLogError never throws.                *)
C15_NeverThrowsOnObjects ==
    \A fn \in {"isRetryableError", "isOperationalError", "extractErrorDetails",
               "createErrorResponse", "shouldLogError", "formatErrorForLogging"} :
      (done(fn) /\ ~isBaseException(ret[1].error)
         /\ (ret[1].error.kind \notin {"null", "undefined"} \/ fn = "shouldLogError"))
        => ~ret[1].threw

TransientCodes ==
    {"ECONNRESET", "ECONNREFUSED", "ETIMEDOUT", "ENOTFOUND", "ENETUNREACH",
     "EPIPE", "EAI_AGAIN"}

occursIn(c, text) == text # Undef /\ \E i \in 1 .. Len(text[1]) : text[1][i] = c

(* C16: isRetryableError(x) returns the retryable flag of a modeled x,     *)
(* whatever its message and code; for a foreign x (one whose properties    *)
(* can be read) it returns true iff one of the seven transient codes       *)
(* equals x.code or occurs in x.message or in x.stack.                     *)
C16_RetryableClassification ==
    done("isRetryableError") =>
      LET x == ret[1].error IN
      IF isBaseException(x)
      THEN ~ret[1].threw /\ ret[1].value = x.retryable
      ELSE x.kind \notin {"null", "undefined"} =>
             /\ ~ret[1].threw
             /\ ret[1].value <=>
                  \E c \in TransientCodes :
                    \/ x.code = Some(c)
                    \/ occursIn(c, x.message)
                    \/ occursIn(c, x.stack)

C16_Witness ==
    /\ returned("isRetryableError")
    /\ isBaseException(ret[1].error)
    /\ ret[1].error.message = "read ECONNRESET"
    /\ ret[1].error.code = "ECONNRESET"
    /\ ~ret[1].error.retryable
    /\ ret[1].value = FALSE

severity == <<"error", "warn", "info", "debug">>

rank(level) == (CHOOSE i \in 1 .. 4 : severity[i] = level) - 1

(* C17: with the order error(0) < warn(1) < info(2) < debug(3),            *)
(* shouldLogError(x, threshold) is true for a modeled x iff                *)
(* rank(x.logLevel) <= rank(threshold), and for a foreign x iff threshold  *)
(* is 'error'.                                                             *)
C17_LogDecision ==
    done("shouldLogError") =>
      LET x == ret[1].error
          threshold == ret[1].logLevel
      IN /\ ~ret[1].threw
         /\ IF isBaseException(x)
            THEN ret[1].value <=> rank(x.logLevel) <= rank(threshold)
            ELSE ret[1].value <=> threshold = "error"

C17_Witness ==
    /\ returned("shouldLogError")
    /\ isBaseException(ret[1].error)
    /\ ret[1].error.logLevel = "warn"
    /\ ret[1].logLevel = "info"
    /\ ret[1].value = TRUE

isMissing(obj, field) ==
    \/ field \notin DOMAIN obj
    \/ obj[field] = Undef
    \/ obj[field] = Some(Null)
    \/ obj[field] = Some(Str(""))

(* The missing ones among the listed fields, in the order listed, and      *)
(* their names separated by ", ".                                          *)
RECURSIVE missingAmong(_, _)
missingAmong(obj, fields) ==
    IF fields = << >> THEN << >>
    ELSE LET front == missingAmong(obj, SubSeq(fields, 1, Len(fields) - 1))
             last == fields[Len(fields)]
         IN IF isMissing(obj, last) THEN Append(front, last) ELSE front

RECURSIVE commaJoined(_)
commaJoined(names) ==
    IF names = << >> THEN ""
    ELSE LET front == SubSeq(names, 1, Len(names) - 1) IN
         IF front = << >> THEN names[1]
         ELSE commaJoined(front) \o ", " \o names[Len(names)]

(* C18: validateRequiredFields(obj, fields) throws iff at least one listed *)
(* field is absent, undefined, null or '' on obj; the message thrown lists *)
(* every such field, comma-joined, in the order of fields; otherwise it    *)
(* returns normally; and obj is left unchanged.                            *)
C18_RequiredFields ==
    /\ [](done("validateRequiredFields") =>
            LET obj == ret[1].obj
                fields == ret[1].requiredFields
            IN /\ ret[1].threw <=>
                    \E i \in 1 .. Len(fields) : isMissing(obj, fields[i])
               /\ ret[1].threw =>
                    /\ ret[1].value.kind = "Error"
                    /\ ret[1].value.message =
                         "Missing required fields: "
                           \o commaJoined(missingAmong(obj, fields))
               /\ ~ret[1].threw => ret[1].value = Undef)
    /\ [][(pending("validateRequiredFields") /\ ret' # ret)
            => /\ ret'[1].obj = ret[1].obj
               /\ ret'[1].requiredFields = ret[1].requiredFields]_vars

C18_Witness ==
    /\ done("validateRequiredFields")
    /\ ret[1].obj = [name |-> Some(Str("John")), email |-> Some(Str(""))]
    /\ ret[1].requiredFields = <<"email", "age">>
    /\ ret[1].threw
    /\ ret[1].value.message = "Missing required fields: email, age"

Setters == {"addDetail", "addContext", "setRequestId", "setUserId"}

(* The step is the call fn(key, ...) on record id.                          *)
stepAdds(fn, id, key) ==
    /\ ret' # Undef
    /\ ret'[1].fn = fn
    /\ ret'[1].this = id
    /\ ret'[1].key = key

(* The step is errorHandler on record id, which adds key to its context.   *)
stepHandlerAdds(id, key) ==
    /\ ret' # Undef
    /\ ret'[1].fn = "errorHandler"
    /\ isBaseException(ret'[1].error)
    /\ ret'[1].error.ref = id
    /\ key \in {"url", "method", "ip", "userAgent"}

(* The value the step gives the key it adds.                               *)
valueAdded(key) ==
    IF ret'[1].fn \in {"addDetail", "addContext"} THEN ret'[1].arg
    ELSE IF key = "userAgent" THEN ret'[1].req.userAgent
    ELSE Some(ret'[1].req[key])

(* A setter returns the record it was called on, and the key an add was    *)
(* called with holds the value added.                                      *)
settersReturnThis ==
    \A fn \in Setters :
      done(fn) =>
        /\ ~ret[1].threw
        /\ ret[1].value = ret[1].this
        /\ fn = "addDetail" => detailsOf(ret[1].this)[ret[1].key] = ret[1].arg
        /\ fn = "addContext" => contextOf(ret[1].this)[ret[1].key] = ret[1].arg

(* The step removes no key of the details of record id, and a key holds    *)
(* after the step the value it held before unless the step is an addDetail *)
(* with that key (when shared, any add to the object the details are).     *)
detailsAppendOnly(id, shared) ==
    LET before == heap[exc(id).details]
        after == heap'[exc(id).details]
    IN /\ DOMAIN before \subseteq DOMAIN after
       /\ \A k \in DOMAIN after :
            \/ k \in DOMAIN before /\ after[k] = before[k]
            \/ /\ \/ stepAdds("addDetail", id, k)
                  \/ shared /\ (stepAdds("addContext", id, k) \/ stepHandlerAdds(id, k))
               /\ after[k] = valueAdded(k)

(* The same for the context, which addContext and errorHandler add to.     *)
contextAppendOnly(id, shared) ==
    LET before == heap[exc(id).context]
        after == heap'[exc(id).context]
    IN /\ DOMAIN before \subseteq DOMAIN after
       /\ \A k \in DOMAIN after :
            \/ k \in DOMAIN before /\ after[k] = before[k]
            \/ /\ \/ stepAdds("addContext", id, k)
                  \/ stepHandlerAdds(id, k)
                  \/ shared /\ stepAdds("addDetail", id, k)
               /\ after[k] = valueAdded(k)

(* The record keeps the objects its details and context are.               *)
keepsMaps(id) ==
    /\ excs'[id] # Undef
    /\ excs'[id][1].details = exc(id).details
    /\ excs'[id][1].context = exc(id).context

(* C19 as claimed: details and context are append-only.  No step removes a *)
(* key of either; a key of details keeps its value until addDetail is      *)
(* called with that key and then holds the value added, and likewise a key *)
(* of context with addContext (which errorHandler also calls); the four    *)
(* setters return the record they were called on; addDetail never changes  *)
(* context and addContext never changes details.                           *)
C19_ClaimedAppendOnly ==
    /\ []settersReturnThis
    /\ [][\A id \in ExcIds :
            constructed(id) =>
              /\ keepsMaps(id)
              /\ detailsAppendOnly(id, FALSE)
              /\ contextAppendOnly(id, FALSE)
         ]_vars

(* C19 without its last clause: the same statement, where an add through   *)
(* either method counts for a record whose details and context are one and *)
(* the same object.  It holds; and so does the last clause for every       *)
(* record whose details and context are two objects.                       *)
C19_AppendOnlyPerObject ==
    /\ []settersReturnThis
    /\ [][\A id \in ExcIds :
            constructed(id) =>
              LET shared == exc(id).details = exc(id).context IN
              /\ keepsMaps(id)
              /\ detailsAppendOnly(id, shared)
              /\ contextAppendOnly(id, shared)
         ]_vars

FixedFields ==
    {"retryable", "statusCode", "code", "message", "isOperational", "logLevel",
     "timestamp"}

(* C20: retryable, statusCode, code, message, isOperational, logLevel and  *)
(* timestamp of a record are those its construction gave it: no call of    *)
(* addContext, addDetail, setRequestId, setUserId, toJSON, toResponse or   *)
(* errorHandler changes any of them, and isRetryable() returns the same    *)
(* value throughout.                                                       *)
C20_FixedAtConstruction ==
    /\ [](\A id \in ExcIds :
            constructed(id) =>
              LET built == newException(variantOf(id), argsOf(id), opts, id, clock - 1)
              IN \A f \in FixedFields : exc(id)[f] = built[f])
    /\ [][\A id \in ExcIds :
            constructed(id) =>
              /\ excs'[id] # Undef
              /\ \A f \in FixedFields : excs'[id][1][f] = exc(id)[f]
              /\ isRetryable(excs'[id][1]) = isRetryable(exc(id))
         ]_vars

C20_Witness ==
    /\ returned("errorHandler")
    /\ ret[1].error = recordError("e1")
    /\ variantOf("e1") = "RateLimitExceededException"
    /\ isRetryable(exc("e1"))
    /\ exc("e1").statusCode = 429
    /\ exc("e1").requestId = Some("req-9")
    /\ exc("e1").userId = Some("user-1")
    /\ "field" \in DOMAIN detailsOf("e1")
    /\ "url" \in DOMAIN contextOf("e1")
    /\ resp # Undef

(***************************************************************************)
(* C21: the status code of a record and the registry's categories          *)
(***************************************************************************)
(* The category a code's leading digit names.                              *)
digitCategory(c) ==
    CASE c \div 100 = 1 -> "INFORMATIONAL"
      [] c \div 100 = 2 -> "SUCCESS"
      [] c \div 100 = 3 -> "REDIRECTION"
      [] c \div 100 = 4 -> "CLIENT_ERROR"
      [] c \div 100 = 5 -> "SERVER_ERROR"
      [] OTHER -> "none"

(* The codes some category lists.                                          *)
ListedCodes ==
    UNION {{StatusCodeCategories[cat][i] : i \in DOMAIN StatusCodeCategories[cat]} :
           cat \in DOMAIN StatusCodeCategories}

(* No code is listed in two categories.                                    *)
categoriesExclusive ==
    \A c \in 100 .. 599 :
      Cardinality({cat \in DOMAIN StatusCodeCategories :
                     isStatusCodeCategory(c, cat)}) <= 1

(* isStatusCodeCategory(c, cat) holds iff getStatusCodeCategory(c) is cat. *)
categoryLookupsAgree ==
    done("isStatusCodeCategory") =>
      /\ ~ret[1].threw
      /\ ret[1].value <=>
           getStatusCodeCategory(ret[1].statusCode) = Some(ret[1].category)

(* C21 as claimed: for every record, of any variant and with any options,  *)
(* getStatusCodeCategory(statusCode) is never null and is the category of  *)
(* the code's leading digit; no code is listed in two categories; and      *)
(* isStatusCodeCategory(c, cat) holds iff getStatusCodeCategory(c) is cat. *)
C21_ClaimedAlwaysCategorized ==
    /\ done("getStatusCodeCategory") =>
         /\ ~ret[1].threw
         /\ ret[1].value # Undef
         /\ ret[1].value = Some(digitCategory(ret[1].statusCode))
    /\ categoryLookupsAgree
    /\ categoriesExclusive

(* C21 as amended: getStatusCodeCategory(statusCode) is the category of    *)
(* the leading digit when some category lists the code and null otherwise; *)
(* it is never null for a record constructed without a statusCode option   *)
(* (ThirdPartyAPIException aside, whose status is the upstream's); no code *)
(* is listed in two categories; and isStatusCodeCategory(c, cat) holds iff *)
(* getStatusCodeCategory(c) is cat.                                        *)
C21_CategorizedWhenListed ==
    /\ done("getStatusCodeCategory") =>
         LET sc == ret[1].statusCode IN
         /\ ~ret[1].threw
         /\ ret[1].value # Undef <=> sc \in ListedCodes
         /\ ret[1].value # Undef => ret[1].value = Some(digitCategory(sc))
         /\ (ret[1].options = << >> /\ ret[1].error.name # "ThirdPartyAPIException")
              => ret[1].value # Undef
    /\ categoryLookupsAgree
    /\ categoriesExclusive

C21_Witness ==
    /\ returned("getStatusCodeCategory")
    /\ ret[1].error.name = "ThirdPartyAPIException"
    /\ ret[1].options = << >>
    /\ ret[1].statusCode = 520
    /\ ret[1].value = Undef

(***************************************************************************)
(* C22, C23: the defaults of the variants                                  *)
(***************************************************************************)
(* Record id was constructed with an empty options argument.               *)
withoutOverrides(id) == constructed(id) /\ opts = << >>

(* C22: of the 11 HTTP variants constructed without overrides, retryable   *)
(* is true exactly for the 429, 503 and 504 variants, and isOperational is *)
(* false exactly for the 500, 503 and 504 variants.                        *)
C22_HttpDefaults ==
    /\ Cardinality(HttpVariants) = 11
    /\ \A id \in ExcIds :
         (withoutOverrides(id) /\ variantOf(id) \in HttpVariants) =>
           /\ exc(id).retryable <=>
                variantOf(id) \in {"TooManyRequestsException",
                                   "ServiceUnavailableException",
                                   "GatewayTimeoutException"}
           /\ exc(id).retryable <=> exc(id).statusCode \in {429, 503, 504}
           /\ ~exc(id).isOperational <=>
                variantOf(id) \in {"InternalServerErrorException",
                                   "ServiceUnavailableException",
                                   "GatewayTimeoutException"}
           /\ ~exc(id).isOperational <=> exc(id).statusCode \in {500, 503, 504}

C22_Witness ==
    /\ withoutOverrides("e1")
    /\ variantOf("e1") = "GatewayTimeoutException"
    /\ exc("e1").statusCode = 504
    /\ exc("e1").retryable
    /\ ~exc("e1").isOperational

(* C23 as claimed: every business variant constructed without overrides    *)
(* has a 4xx status code, except the configuration and maintenance         *)
(* variants, which have a 5xx one.                                         *)
C23_ClaimedClientAttributable ==
    \A id \in ExcIds :
      (withoutOverrides(id) /\ variantOf(id) \in BusinessVariants) =>
        IF variantOf(id) \in {"ConfigurationException", "MaintenanceModeException"}
        THEN isServerError(exc(id)) /\ ~isClientError(exc(id))
        ELSE isClientError(exc(id)) /\ exc(id).statusCode \in 400 .. 499

(* C23 as amended: the feature-not-available variant is server-side too.   *)
C23_ClientAttributableButThree ==
    \A id \in ExcIds :
      (withoutOverrides(id) /\ variantOf(id) \in BusinessVariants) =>
        IF variantOf(id) \in {"ConfigurationException", "FeatureNotAvailableException",
                              "MaintenanceModeException"}
        THEN isServerError(exc(id)) /\ ~isClientError(exc(id))
        ELSE isClientError(exc(id)) /\ exc(id).statusCode \in 400 .. 499

C23_Witness ==
    /\ withoutOverrides("e1")
    /\ variantOf("e1") = "FeatureNotAvailableException"
    /\ exc("e1").statusCode = 503
    /\ isServerError(exc("e1"))

(***************************************************************************)
(* C24: two concurrent calls of retryWithBackoff                           *)
(***************************************************************************)
(* What a call's own arguments and the outcomes of its own invocations of  *)
(* fn determine when it runs alone: the invocations made, the suspensions  *)
(* computed, and the outcome.                                              *)
ranAlone(s) ==
    /\ \A i \in DOMAIN s.delays :
         s.delays[i] = backoffDelay(s.baseDelay, i - 1, s.maxDelay)
    /\ CASE s.pc = "awaitFn" ->
              /\ s.attempt <= s.maxRetries
              /\ s.calls = s.attempt + 1
              /\ s.failures = s.attempt
              /\ Len(s.delays) = s.attempt
         [] s.pc = "sleeping" ->
              /\ s.attempt < s.maxRetries
              /\ s.calls = s.attempt + 1
              /\ s.failures = s.calls
              /\ Len(s.delays) = s.attempt + 1
              /\ isRetryableError(s.thrown)
         [] s.pc = "resolved" ->
              /\ s.calls = s.attempt + 1
              /\ s.failures = s.attempt
              /\ Len(s.delays) = s.attempt
              /\ s.outcome = successValue(s.calls)
         [] s.pc = "rejected" /\ s.maxRetries < 0 ->
              /\ s.calls = 0
              /\ s.delays = << >>
              /\ s.outcome = undefinedValue
         [] s.pc = "rejected" /\ s.maxRetries >= 0 ->
              /\ s.calls = s.attempt + 1
              /\ s.failures = s.calls
              /\ Len(s.delays) = s.attempt
              /\ s.thrown.id = s.calls
              /\ s.outcome =
                   IF s.attempt < s.maxRetries /\ isRetryableErrorThrows(s.thrown)
                   THEN typeError ELSE s.thrown
              /\ s.attempt < s.maxRetries
                   => (isRetryableErrorThrows(s.thrown) \/ ~isRetryableError(s.thrown))

(* While another call is suspended between attempts, or awaits its fn, a   *)
(* call that awaits its own fn can go on, and so can one whose timer is    *)
(* due.                                                                    *)
neverBlocked ==
    \A d \in Drivers :
      started(d) =>
        /\ drv[d].pc = "awaitFn" => ENABLED FnResolve(d)
        /\ drv[d].pc = "awaitFn" => ENABLED FnReject(d, undefinedValue)
        /\ drv[d].pc = "sleeping" => ENABLED TimerFire(d)

(* A step of one call leaves the other call as it is.                      *)
stepOfOneCall ==
    \A d \in Drivers :
      (started(d) /\ drv'[d] # drv[d]) =>
        \A o \in Drivers \ {d} :
          IF started(o) THEN drv'[o] = drv[o] ELSE o \notin DOMAIN drv'

(* C24: two calls of retryWithBackoff running in one process do not block  *)
(* or disturb each other: a suspended call never keeps the other from      *)
(* running its attempts and settling, a step of one leaves the other       *)
(* unchanged, and each call's invocations, delays and outcome are those of *)
(* a call running alone.                                                   *)
C24_IndependentCalls ==
    /\ [](neverBlocked /\ \A d \in Drivers : started(d) => ranAlone(drv[d]))
    /\ [][stepOfOneCall]_vars

(* B ran three attempts and settled while A stayed suspended after its     *)
(* first attempt.                                                          *)
C24_Witness ==
    /\ started("A") /\ started("B")
    /\ drv["A"].pc = "sleeping"
    /\ drv["A"].calls = 1
    /\ drv["A"].delays = <<3>>
    /\ drv["B"].pc = "rejected"
    /\ drv["B"].maxRetries = 2
    /\ drv["B"].calls = 3
    /\ drv["B"].delays = <<10, 20>>
    /\ drv["B"].outcome = drv["B"].thrown

(***************************************************************************)
(* C25: what a call of retryWithBackoff is rejected with                   *)
(***************************************************************************)
(* C25 as claimed: whenever a call is rejected, fn has been invoked at     *)
(* least once and the rejection value is the value the last invocation     *)
(* threw, for every maxRetries (0 and negative ones too) and every thrown  *)
(* value (null and undefined too).                                         *)
C25_ClaimedRejectsWithLastThrown ==
    \A d \in Drivers :
      (started(d) /\ drv[d].pc = "rejected") =>
        /\ drv[d].calls >= 1
        /\ drv[d].outcome = drv[d].thrown
        /\ drv[d].thrown.id = drv[d].calls

(* What holds of every rejection: with maxRetries >= 0 fn was invoked, and *)
(* the rejection value is the value the last invocation threw unless that  *)
(* value is null or undefined and attempts remained, in which case it is   *)
(* the TypeError raised by isRetryableError; with maxRetries < 0 fn was    *)
(* never invoked and the rejection value is undefined.                     *)
C25_RejectsWithLastThrownOrTypeError ==
    \A d \in Drivers :
      (started(d) /\ drv[d].pc = "rejected") =>
        IF drv[d].maxRetries < 0
        THEN drv[d].calls = 0 /\ drv[d].outcome = undefinedValue
        ELSE /\ drv[d].calls >= 1
             /\ drv[d].thrown.id = drv[d].calls
             /\ IF drv[d].thrown.kind \in {"null", "undefined"}
                   /\ drv[d].attempt < drv[d].maxRetries
                THEN drv[d].outcome = typeError
                ELSE drv[d].outcome = drv[d].thrown

(***************************************************************************)
(* C26: the attempts of one call are sequential                            *)
(***************************************************************************)
(* The invocations of fn that have not settled yet.                        *)
inFlight(s) == s.calls - s.failures - (IF s.pc = "resolved" THEN 1 ELSE 0)

(* A later attempt starts in the step in which the timer fires, after      *)
(* every earlier attempt failed and was followed by a suspension.          *)
attemptStartsAfterSuspension ==
    \A d \in Drivers :
      (started(d) /\ drv'[d].calls # drv[d].calls) =>
        /\ drv[d].pc = "sleeping"
        /\ inFlight(drv[d]) = 0
        /\ drv[d].failures = drv[d].calls
        /\ Len(drv[d].delays) = drv[d].calls
        /\ drv'[d].pc = "awaitFn"
        /\ drv'[d].calls = drv[d].calls + 1
        /\ drv'[d].delays = drv[d].delays

(* A failing attempt that is to be retried suspends the call; it starts    *)
(* nothing.                                                                *)
failureSuspends ==
    \A d \in Drivers :
      (started(d) /\ drv'[d].failures # drv[d].failures) =>
        /\ drv[d].pc = "awaitFn"
        /\ drv'[d].pc \in {"sleeping", "rejected"}
        /\ drv'[d].calls = drv[d].calls
        /\ inFlight(drv'[d]) = 0

(* C26: within one call of retryWithBackoff, attempt i+1 starts only after *)
(* attempt i has failed and the suspension computed for it has elapsed,    *)
(* and at most one attempt is in flight at any time.                       *)
C26_SequentialAttempts ==
    /\ [](\A d \in Drivers :
            started(d) =>
              /\ inFlight(drv[d]) \in {0, 1}
              /\ inFlight(drv[d]) = 1 <=> drv[d].pc = "awaitFn")
    /\ [][attemptStartsAfterSuspension /\ failureSuspends]_vars

C26_Witness ==
    /\ started("A")
    /\ drv["A"].pc = "awaitFn"
    /\ drv["A"].calls = 3
    /\ drv["A"].failures = 2
    /\ drv["A"].delays = <<10, 20>>

(***************************************************************************)
(* C27: a record owns its details and context                              *)
(***************************************************************************)
(* The step is a call of addDetail or addContext on record id.             *)
stepAddsTo(id) ==
    /\ excs' = excs
    /\ heap' # heap
    /\ ret' # Undef
    /\ ret'[1].fn \in {"addDetail", "addContext"}
    /\ ret'[1].this = id

(* The step leaves the details and context of every other record as they   *)
(* are.                                                                    *)
othersUntouched(id) ==
    \A o \in ExcIds \ {id} :
      constructed(o) =>
        /\ heap'[exc(o).details] = heap[exc(o).details]
        /\ heap'[exc(o).context] = heap[exc(o).context]

(* The step leaves the objects of the caller's options as they are.        *)
optionsUntouched ==
    \A k \in {"details", "context"} \cap DOMAIN opts :
      opts[k] # Undef => heap'[opts[k][1]] = heap[opts[k][1]]

(* An addDetail on record id leaves its context as it is.                  *)
ownContextUntouched(id) ==
    ret'[1].fn = "addDetail" => heap'[exc(id).context] = heap[exc(id).context]

(* C27 as claimed: addDetail/addContext on one record never changes the    *)
(* details or context of a different record, nor the objects of the        *)
(* caller's options, also when both records were constructed from the same *)
(* options object, and a key added to details never appears in the same    *)
(* record's context.                                                       *)
C27_ClaimedExclusiveOwnership ==
    [][\A id \in ExcIds :
         (constructed(id) /\ stepAddsTo(id)) =>
           /\ othersUntouched(id)
           /\ optionsUntouched
           /\ ownContextUntouched(id)
      ]_vars

(* What holds: an add to a map that the construction of the record         *)
(* allocated (the {} default, or the details literal of the variant)       *)
(* changes that map and nothing else.                                      *)
C27_OwnsWhatItAllocated ==
    [][\A id \in ExcIds :
         (constructed(id) /\ stepAddsTo(id)) =>
           LET target == IF ret'[1].fn = "addDetail"
                         THEN exc(id).details ELSE exc(id).context
           IN target \in {variantDetailsRef(id), defaultDetailsRef(id),
                          defaultContextRef(id)}
                => /\ othersUntouched(id)
                   /\ optionsUntouched
                   /\ ownContextUntouched(id)
                   /\ \A r \in DOMAIN heap \ {target} : heap'[r] = heap[r]
      ]_vars

(***************************************************************************)
(* C28: errorHandler and the request id of a record                        *)
(***************************************************************************)
(* The step is errorHandler(error, req, res, next) with record id as the   *)
(* error.                                                                  *)
stepHandles(id) ==
    /\ ret' # ret
    /\ ret' # Undef
    /\ ret'[1].fn = "errorHandler"
    /\ isBaseException(ret'[1].error)
    /\ ret'[1].error.ref = id

(* C28 as claimed: when a record that has a request id reaches             *)
(* errorHandler, it has a request id afterwards and the body sent contains *)
(* error.requestId, whether or not requestIdMiddleware set req.requestId.  *)
C28_ClaimedKeepsRequestId ==
    [][\A id \in ExcIds :
         (constructed(id) /\ truthyString(exc(id).requestId) /\ stepHandles(id)) =>
           /\ ~ret'[1].threw
           /\ excs'[id][1].requestId # Undef
           /\ "requestId" \in DOMAIN ret'[1].value.json.error
      ]_vars

(* What holds: after errorHandler the record's request id is the one of    *)
(* the request, defined or not, and the body sent contains it exactly when *)
(* the request has one.                                                    *)
C28_TakesRequestIdOfRequest ==
    [][\A id \in ExcIds :
         (constructed(id) /\ stepHandles(id)) =>
           LET req == ret'[1].req
               body == ret'[1].value.json.error
           IN /\ ~ret'[1].threw
              /\ excs'[id][1].requestId = req.requestId
              /\ "requestId" \in DOMAIN body <=> truthyString(req.requestId)
              /\ "requestId" \in DOMAIN body => Some(body.requestId) = req.requestId
      ]_vars

(***************************************************************************)
(* C29: shouldLogError and more verbose thresholds                         *)
(***************************************************************************)
(* The thresholds at least as verbose as t.                                *)
moreVerbose(t) == {u \in LogLevels : rank(u) >= rank(t)}

(* C29 as claimed: for every error x, modeled or foreign, if               *)
(* shouldLogError(x, t) is true then shouldLogError(x, t') is true for     *)
(* every more verbose threshold t' (error < warn < info < debug).          *)
C29_ClaimedMonotone ==
    (returned("shouldLogError") /\ ret[1].value) =>
      \A u \in moreVerbose(ret[1].logLevel) : shouldLogError(ret[1].error, u)

(* C29 as amended: that holds for every modeled x; a foreign x is logged   *)
(* at the threshold 'error' and at no more verbose one.                    *)
C29_MonotoneForModeled ==
    (returned("shouldLogError") /\ ret[1].value) =>
      LET x == ret[1].error
          t == ret[1].logLevel
      IN IF isBaseException(x)
         THEN \A u \in moreVerbose(t) : shouldLogError(x, u)
         ELSE /\ t = "error"
              /\ \A u \in moreVerbose(t) \ {t} : ~shouldLogError(x, u)

C29_Witness ==
    /\ returned("shouldLogError")
    /\ isBaseException(ret[1].error)
    /\ ret[1].error.logLevel = "info"
    /\ ret[1].logLevel = "info"
    /\ ret[1].value
    /\ shouldLogError(ret[1].error, "debug")
    /\ ~shouldLogError(ret[1].error, "warn")

(***************************************************************************)
(* C30: asyncErrorHandler                                                  *)
(***************************************************************************)
(* C30 as claimed: whatever fn does, a failure of fn (a rejected promise   *)
(* or a synchronous throw) never leaves the wrapper and, once the promise  *)
(* has settled, has been given to next exactly once, as the original       *)
(* error; when fn succeeds the wrapper does not call next.                 *)
C30_ClaimedEveryFailureToNext ==
    done("asyncErrorHandler") =>
      LET c == ret[1] IN
      /\ ~c.threw
      /\ Len(c.next) <= 1
      /\ c.handler = "fulfils" => c.next = << >>
      /\ (c.handler # "fulfils" /\ c.promise # "pending") => c.next = <<c.error>>

(* C30 as amended: a rejection of the promise fn returns is given to next  *)
(* exactly once, as the original reason, and the wrapper itself returns    *)
(* normally; when the promise is fulfilled, and while it is pending, the   *)
(* wrapper has not called next; a throw of fn before it returns a promise  *)
(* leaves the wrapper with the original error, and next is not called.     *)
C30_RejectionsToNext ==
    done("asyncErrorHandler") =>
      LET c == ret[1] IN
      /\ c.threw <=> c.handler = "throws"
      /\ c.threw => (c.value = c.error /\ c.promise = "none" /\ c.next = << >>)
      /\ Len(c.next) <= 1
      /\ c.promise = "rejected" <=> (c.handler = "rejects" /\ c.next = <<c.error>>)
      /\ c.promise \in {"pending", "fulfilled"} => c.next = << >>
      /\ c.handler = "fulfils" => c.next = << >>

C30_Witness ==
    /\ done("asyncErrorHandler")
    /\ ~ret[1].threw
    /\ ret[1].handler = "rejects"
    /\ ret[1].promise = "rejected"
    /\ isBaseException(ret[1].error)
    /\ ret[1].error.name = "NotFoundException"
    /\ ret[1].next = <<ret[1].error>>

====
